---- MODULE Spec2Model ----
(***************************************************************************)
(* SmartBackup: manifest-based incremental backup.                         *)
(*                                                                         *)
(* The module models                                                       *)
(*   - ManifestEntry.has_changed, ManifestManager.diff and                 *)
(*     update_from_backup (manifest/base.py),                              *)
(*   - Manifest.to_dict / from_dict and JsonManifestManager.load / save    *)
(*     (manifest/base.py, manifest/json_manifest.py),                      *)
(*   - ChangeDetector.detect_changes (core/detector.py),                   *)
(*   - BackupEngine.run_backup with its copy batches, the dry run and      *)
(*     the legacy-layout migration (core/engine.py),                       *)
(*   - RestoreEngine.restore with its worker tasks (core/restore.py).      *)
(***************************************************************************)
EXTENDS Integers, Sequences, FiniteSets, TLC

VARIABLES
    src,             \* source tree: relative path -> [size, mtime, digest]
    dst,             \* files under the backup target: relative path -> [size, mtime]
    mfile,           \* content of <target>/.smartbackup_manifest.json
    tmpfile,         \* content of <target>/.smartbackup_manifest.json.tmp
    config,          \* BackupConfig of the engine
    pc,              \* position of run_backup
    result,          \* self.result (BackupResult)
    manifest,        \* self._manifest
    source_files,    \* scan result of the current run
    new_files,       \* files classified new by the current run
    modified_files,  \* files classified modified by the current run
    futures,         \* the current batch: relative path -> state of its future
    backed_up_files, \* self._backed_up_files
    run,             \* the current call of run_backup: validation and save outcome
    returned,        \* what the last call of run_backup gave its caller
    prev,            \* the call of run_backup before the last one (history)
    runs,            \* number of run_backup calls started
    edits,           \* number of edits of the source tree
    probe            \* state of the operation studied outside run_backup: a pure
                     \* function's input and output, the backup root, a restore

vars == <<src, dst, mfile, tmpfile, config, pc, result, manifest, source_files,
          new_files, modified_files, futures, backed_up_files, run, returned,
          prev, runs, edits, probe>>

(***************************************************************************)
(* Bounds of the model.                                                    *)
(***************************************************************************)
MaxFiles == 2
MaxSize == 2
MaxMtime == 2
MaxRuns == 3
MaxEdits == 1

Paths == 1..MaxFiles
Sizes == 1..MaxSize
Mtimes == 1..MaxMtime

(***************************************************************************)
(* Values.                                                                 *)
(***************************************************************************)
\* Optional[str] file_hash: None, the empty string, or a digest.
Digests == {"h1", "h2"}
Hashes == {"None", ""} \cup Digests

\* Python truthiness of an Optional[str].
Truthy(h) == h \notin {"None", ""}

\* Python's  x or ""  on an Optional[str].
OrEmpty(h) == IF Truthy(h) THEN h ELSE ""

\* None, as the value of an Optional[Manifest].
None == [none |-> TRUE]
IsNone(m) == "none" \in DOMAIN m

\* dict.get(key, default)
Get(d, k, default) == IF k \in DOMAIN d THEN d[k] ELSE default

\* The sum of f[x] over the finite set S.
RECURSIVE SumOver(_, _)
SumOver(f, S) ==
    IF S = {} THEN 0
    ELSE LET x == CHOOSE y \in S : TRUE IN f[x] + SumOver(f, S \ {x})

\* The elements of the set of integers S in ascending order.
RECURSIVE Ascending(_)
Ascending(S) ==
    IF S = {} THEN <<>>
    ELSE LET x == CHOOSE y \in S : \A z \in S : y <= z
         IN <<x>> \o Ascending(S \ {x})

\* The set of elements of a sequence.
Range(s) == {s[i] : i \in 1..Len(s)}

\* FileInfo (models.py); path is base_path / relative_path.
FileInfo(p, size, mtime, h) ==
    [relative_path |-> p, size |-> size, mtime |-> mtime, file_hash |-> h]

\* st_mode of a regular source file with mode 0644 (S_IFREG | 0o644).
st_mode(p) == 33188

\* The default permissions of an entry, 0o644.
DefaultPermissions == 420

(***************************************************************************)
(* ManifestEntry                                                           *)
(***************************************************************************)
ManifestEntry(p, h, size, mtime, permissions, backed_up_at) ==
    [relative_path |-> p, file_hash |-> h, size |-> size, mtime |-> mtime,
     permissions |-> permissions, backed_up_at |-> backed_up_at]

\* ManifestEntry.from_file_info; statFails: file_info.path.stat() raises OSError.
from_file_info(file_info, backed_up_at, statFails) ==
    ManifestEntry(file_info.relative_path, OrEmpty(file_info.file_hash),
                  file_info.size, file_info.mtime,
                  IF statFails THEN DefaultPermissions
                  ELSE st_mode(file_info.relative_path),
                  backed_up_at)

\* A mutant of has_changed: any mtime difference counts as a change.
has_changed_mtime_differs(entry, file_info) ==
    IF file_info.size # entry.size THEN TRUE
    ELSE IF file_info.mtime # entry.mtime THEN TRUE
    ELSE IF Truthy(file_info.file_hash) /\ Truthy(entry.file_hash)
         THEN file_info.file_hash # entry.file_hash
    ELSE FALSE

\* ManifestEntry.has_changed
has_changed(entry, file_info) ==
    IF file_info.size # entry.size THEN TRUE
    ELSE IF file_info.mtime > entry.mtime THEN TRUE
    ELSE IF Truthy(file_info.file_hash) /\ Truthy(entry.file_hash)
         THEN file_info.file_hash # entry.file_hash
    ELSE FALSE

(***************************************************************************)
(* Manifest                                                                *)
(***************************************************************************)
\* ManifestFormat: the member names and their values.
ManifestFormatValue(member) == IF member = "JSON" THEN "json" ELSE "sqlite"
ManifestFormatValues == {"json", "sqlite"}
ManifestFormatMember(value) == IF value = "json" THEN "JSON" ELSE "SQLITE"

\* datetime.isoformat and datetime.fromisoformat: a datetime t is written as the
\* text [iso |-> t]; any other text is not an ISO timestamp.
isoformat(t) == [iso |-> t]
IsIsoText(s) == "iso" \in DOMAIN s

\* The dataclass Manifest.
Manifest(version, format, created, updated, source, hostname, backup_count, entries) ==
    [version |-> version, format |-> format, created |-> created,
     updated |-> updated, source |-> source, hostname |-> hostname,
     backup_count |-> backup_count, entries |-> entries]

\* Manifest.total_files and Manifest.total_size
total_files(m) == Cardinality(DOMAIN m.entries)
total_size(m) == SumOver([p \in DOMAIN m.entries |-> m.entries[p].size], DOMAIN m.entries)

\* Manifest.add_entry
add_entry(m, entry, now) ==
    [m EXCEPT !.entries = [p \in DOMAIN m.entries \cup {entry.relative_path} |->
                              IF p = entry.relative_path THEN entry ELSE m.entries[p]],
              !.updated = now]

\* Manifest.remove_entry
remove_entry(m, relative_path, now) ==
    IF relative_path \in DOMAIN m.entries
    THEN [m EXCEPT !.entries = [p \in DOMAIN m.entries \ {relative_path} |-> m.entries[p]],
                   !.updated = now]
    ELSE m

\* A JSON object with the given members, and a JSON array.
JObject(members) == [t |-> "object", v |-> members]
JArray == [t |-> "array"]
IsJObject(j) == j.t = "object"

\* ManifestEntry.to_dict
entry_to_dict(e) ==
    JObject([hash |-> e.file_hash, size |-> e.size, mtime |-> e.mtime,
             permissions |-> e.permissions, backed_up_at |-> e.backed_up_at])

\* A mutant of entry_from_dict: the hash is read under the key "file_hash".
entry_from_dict_wrong_key(relative_path, data) ==
    ManifestEntry(relative_path,
                  Get(data.v, "file_hash", ""),
                  Get(data.v, "size", 0),
                  Get(data.v, "mtime", 0),
                  Get(data.v, "permissions", DefaultPermissions),
                  Get(data.v, "backed_up_at", 0))

\* ManifestEntry.from_dict, for data that is a JSON object.
entry_from_dict(relative_path, data) ==
    ManifestEntry(relative_path,
                  Get(data.v, "hash", ""),
                  Get(data.v, "size", 0),
                  Get(data.v, "mtime", 0),
                  Get(data.v, "permissions", DefaultPermissions),
                  Get(data.v, "backed_up_at", 0))

\* Manifest.to_dict
to_dict(m) ==
    JObject([version |-> m.version,
             format |-> ManifestFormatValue(m.format),
             created |-> isoformat(m.created),
             updated |-> isoformat(m.updated),
             source |-> m.source,
             hostname |-> m.hostname,
             backup_count |-> m.backup_count,
             total_files |-> total_files(m),
             total_size |-> total_size(m),
             files |-> JObject([p \in DOMAIN m.entries |-> entry_to_dict(m.entries[p])])])

\* The exception Manifest.from_dict raises on data, "" when it raises none:
\* data.get on a non-dict, ManifestFormat(value) on an unknown value,
\* datetime.fromisoformat on a text that is no timestamp, files.items() on a
\* non-dict, entry_data.get on a non-dict.
from_dict_raises(data, now) ==
    IF ~IsJObject(data) THEN "AttributeError"
    ELSE IF Get(data.v, "format", "json") \notin ManifestFormatValues THEN "ValueError"
    ELSE IF ~IsIsoText(Get(data.v, "created", isoformat(now))) THEN "ValueError"
    ELSE IF ~IsIsoText(Get(data.v, "updated", isoformat(now))) THEN "ValueError"
    ELSE LET files_data == Get(data.v, "files", JObject(<<>>))
         IN IF ~IsJObject(files_data) THEN "AttributeError"
            ELSE IF \E p \in DOMAIN files_data.v : ~IsJObject(files_data.v[p])
                 THEN "AttributeError"
            ELSE ""

\* Manifest.from_dict, for data on which it does not raise.
from_dict(data, now) ==
    LET files_data == Get(data.v, "files", JObject(<<>>))
    IN Manifest(Get(data.v, "version", 1),
                ManifestFormatMember(Get(data.v, "format", "json")),
                Get(data.v, "created", isoformat(now)).iso,
                Get(data.v, "updated", isoformat(now)).iso,
                Get(data.v, "source", ""),
                Get(data.v, "hostname", ""),
                Get(data.v, "backup_count", 0),
                [p \in DOMAIN files_data.v |-> entry_from_dict(p, files_data.v[p])])

(***************************************************************************)
(* JsonManifestManager: the manifest file and its temporary sibling        *)
(***************************************************************************)
\* What a path of the backup target can hold: nothing, a file that cannot be
\* opened for reading, a text that is not JSON (garbage or a truncated
\* document), or the text of the JSON value data.
Absent == [kind |-> "absent"]
Unreadable == [kind |-> "unreadable"]
NotJson == [kind |-> "text", json |-> FALSE]
JsonText(data) == [kind |-> "text", json |-> TRUE, data |-> data]

\* JsonManifestManager.exists
exists(file) == file.kind # "absent"

\* The exceptions load catches.
LoadCaught == {"JSONDecodeError", "IOError", "OSError"}

\* The exception raised inside the try block of load, "" when none is.
load_raises(file, now) ==
    IF file.kind = "unreadable" THEN "OSError"
    ELSE IF ~file.json THEN "JSONDecodeError"
    ELSE from_dict_raises(file.data, now)

\* JsonManifestManager.load: [raised |-> exception] when an exception leaves
\* load, else [value |-> None or the manifest].
load(file, now) ==
    IF ~exists(file) THEN [value |-> None]
    ELSE LET exc == load_raises(file, now)
         IN IF exc = "" THEN [value |-> from_dict(file.data, now)]
            ELSE IF exc \in LoadCaught THEN [value |-> None]
            ELSE [raised |-> exc]

Raised(r) == "raised" \in DOMAIN r

\* The steps of save at which an OSError can be raised ("" for none): mkdir
\* of the directory, open of the temporary file, json.dump, the close at the
\* end of the with block, and the rename over the final path.
SaveFailures == {"mkdir", "open", "write", "close", "replace"}

\* The temporary file at the moment save's step `fail` raises.
temp_at_failure(temp, data, fail) ==
    IF fail \in {"mkdir", "open"} THEN temp
    ELSE IF fail \in {"write", "close"} THEN NotJson
    ELSE JsonText(data)

\* Path.unlink(missing_ok=True)
unlink(file) == Absent

\* A mutant of save: the document is written to the final path itself.
save_in_place(final, temp, m, fail) ==
    IF fail = "" THEN [ok |-> TRUE, mfile |-> JsonText(to_dict(m)), tmpfile |-> temp]
    ELSE [ok |-> FALSE,
          mfile |-> IF fail \in {"mkdir", "open"} THEN final ELSE NotJson,
          tmpfile |-> temp]

\* A mutant of save: the temporary file is not removed on failure.
save_no_cleanup(final, temp, m, fail) ==
    IF fail = "" THEN [ok |-> TRUE, mfile |-> JsonText(to_dict(m)), tmpfile |-> Absent]
    ELSE [ok |-> FALSE, mfile |-> final,
          tmpfile |-> temp_at_failure(temp, to_dict(m), fail)]

\* JsonManifestManager.save with the files final (the manifest path) and
\* temp (the temporary path) on disk: the value returned and the two files
\* afterwards.
save(final, temp, m, fail) ==
    LET data == to_dict(m)
    IN IF fail = ""
       THEN \* temp_path.replace(manifest_path)
            [ok |-> TRUE, mfile |-> JsonText(data), tmpfile |-> Absent]
       ELSE \* except (IOError, OSError): temp_path.unlink(missing_ok=True)
            [ok |-> FALSE, mfile |-> final,
             tmpfile |-> unlink(temp_at_failure(temp, data, fail))]

\* ManifestManager.create
create(source_path, now) ==
    Manifest(1, "JSON", now, now, source_path, "", 0, <<>>)

\* JsonManifestManager.load_or_create, for a load that does not raise.
load_or_create(file, source_path, now) ==
    LET m == load(file, now).value
    IN IF IsNone(m) THEN create(source_path, now) ELSE m

(***************************************************************************)
(* ManifestManager.diff, update_from_backup, verify                        *)
(***************************************************************************)
ManifestDiff(new, modified, deleted, unchanged) ==
    [new_files |-> new, modified_files |-> modified,
     deleted_paths |-> deleted, unchanged_files |-> unchanged]

\* The loop of diff over source_files.values(), in the order of the scan.
RECURSIVE diff_loop(_, _, _, _)
diff_loop(order, files, m, acc) ==
    IF order = <<>> THEN acc
    ELSE LET file_info == files[Head(order)]
             relative_path == file_info.relative_path
             next ==
                 IF relative_path \notin DOMAIN m.entries
                 THEN [acc EXCEPT !.new_files = Append(@, file_info)]
                 ELSE IF has_changed(m.entries[relative_path], file_info)
                 THEN [acc EXCEPT !.modified_files = Append(@, file_info)]
                 ELSE [acc EXCEPT !.unchanged_files = Append(@, file_info)]
         IN diff_loop(Tail(order), files, m, next)

\* A mutant of diff: deleted_paths holds every manifest path.
diff_all_deleted(files, m, stored) ==
    LET order == Ascending(DOMAIN files)
        mm == IF IsNone(m) THEN stored ELSE m
    IN IF IsNone(mm)
       THEN ManifestDiff([i \in 1..Len(order) |-> files[order[i]]], <<>>, <<>>, <<>>)
       ELSE [diff_loop(order, files, mm, ManifestDiff(<<>>, <<>>, <<>>, <<>>))
             EXCEPT !.deleted_paths = Ascending(DOMAIN mm.entries)]

\* ManifestManager.diff; stored is what self.load() returns, used when the
\* manifest argument is None.
diff(files, m, stored) ==
    LET order == Ascending(DOMAIN files)
        mm == IF IsNone(m) THEN stored ELSE m
    IN IF IsNone(mm)
       THEN ManifestDiff([i \in 1..Len(order) |-> files[order[i]]], <<>>, <<>>, <<>>)
       ELSE LET seen == diff_loop(order, files, mm, ManifestDiff(<<>>, <<>>, <<>>, <<>>))
                seen_paths == {files[p].relative_path : p \in DOMAIN files}
            IN [seen EXCEPT !.deleted_paths =
                    SelectSeq(Ascending(DOMAIN mm.entries),
                              LAMBDA p : p \notin seen_paths)]

\* The loops of update_from_backup.
RECURSIVE add_entries(_, _, _, _)
add_entries(m, files, now, statFails) ==
    IF files = <<>> THEN m
    ELSE add_entries(add_entry(m, from_file_info(Head(files), now, statFails), now),
                     Tail(files), now, statFails)

RECURSIVE remove_entries(_, _, _)
remove_entries(m, paths, now) ==
    IF paths = <<>> THEN m
    ELSE remove_entries(remove_entry(m, Head(paths), now), Tail(paths), now)

\* A mutant of update_from_backup: the files backed up get no entry.
update_from_backup_adds_nothing(m, files, deleted_paths, now, statFails) ==
    [remove_entries(m, deleted_paths, now) EXCEPT !.backup_count = @ + 1, !.updated = now]

\* A mutant of update_from_backup: the entries of the paths that were not
\* backed up in this run are dropped.
update_from_backup_prunes(m, files, deleted_paths, now, statFails) ==
    LET added == add_entries(m, files, now, statFails)
        keep == {files[i].relative_path : i \in 1..Len(files)}
    IN [added EXCEPT !.entries = [q \in (DOMAIN @) \cap keep |-> @[q]],
                     !.backup_count = @ + 1,
                     !.updated = now]

\* A mutant of update_from_backup: the entries of deleted_paths stay.
update_from_backup_keeps_deleted(m, files, deleted_paths, now, statFails) ==
    [add_entries(m, files, now, statFails) EXCEPT !.backup_count = @ + 1, !.updated = now]

\* A mutant of update_from_backup: backup_count is left as it is.
update_from_backup_keeps_count(m, files, deleted_paths, now, statFails) ==
    LET added == add_entries(m, files, now, statFails)
        removed == remove_entries(added, deleted_paths, now)
    IN [removed EXCEPT !.updated = now]

\* ManifestManager.update_from_backup; deleted_paths None is the empty list.
update_from_backup(m, files, deleted_paths, now, statFails) ==
    LET added == add_entries(m, files, now, statFails)
        removed == remove_entries(added, deleted_paths, now)
    IN [removed EXCEPT !.backup_count = @ + 1, !.updated = now]

(***************************************************************************)
(* BackupResult and the engine at rest                                     *)
(***************************************************************************)
\* BackupResult() (models.py); end_time None is 0.
BackupResult ==
    [total_files |-> 0, copied_files |-> 0, updated_files |-> 0,
     skipped_files |-> 0, deleted_files |-> 0, errors |-> 0,
     total_size |-> 0, copied_size |-> 0, end_time |-> 0,
     file_actions |-> <<>>]

\* No call of run_backup yet.
NoRun == [called |-> FALSE]

\* The locals of a call of run_backup, before the call: the class of the
\* engine, the outcome of _validate_paths, whether the manifest was saved,
\* whether the except clause was reached, whether scan has caught an
\* exception, what the call has created under the backup path outside the
\* files it copies and the manifest, the outcome of _write_log_file, and
\* whether an exception leaves run_backup.
NoCall ==
    [engine |-> "BackupEngine", valid |-> "ok", saved |-> FALSE, raised |-> FALSE,
     scan_error |-> FALSE, created |-> {}, log |-> "none", escaped |-> FALSE]

\* BackupConfig: use_manifest and use_hash_verification as given, files of
\* the largest size are hashed, no device_name.
BackupConfig(use_manifest, use_hash) ==
    [use_manifest |-> use_manifest, use_hash_verification |-> use_hash,
     log_to_file |-> TRUE,
     min_file_size_for_hash |-> MaxSize, source_path |-> "/home/user/Documents",
     device_name |-> ""]

engineVars == <<src, dst, mfile, tmpfile, config, pc, result, manifest,
                source_files, new_files, modified_files, futures,
                backed_up_files, run, returned, prev, runs, edits>>

\* BackupEngine.__init__, on an empty backup target.
EngineInit ==
    /\ dst = <<>>
    /\ mfile = Absent
    /\ tmpfile = Absent
    /\ pc = "idle"
    /\ result = BackupResult
    /\ manifest = None
    /\ source_files = <<>>
    /\ new_files = <<>>
    /\ modified_files = <<>>
    /\ futures = <<>>
    /\ backed_up_files = <<>>
    /\ run = NoCall
    /\ returned = NoRun
    /\ prev = NoRun
    /\ runs = 0
    /\ edits = 0

(***************************************************************************)
(* has_changed on every entry and file: SpecHasChanged                     *)
(***************************************************************************)
InitHasChanged ==
    /\ EngineInit
    /\ src = <<>>
    /\ config = BackupConfig(TRUE, FALSE)
    /\ \E h \in Hashes, size \in Sizes, mtime \in Mtimes,
          eh \in Hashes, esize \in Sizes, emtime \in Mtimes :
          probe = [op |-> "has_changed",
                   entry |-> ManifestEntry(1, eh, esize, emtime, DefaultPermissions, 1),
                   file_info |-> FileInfo(1, size, mtime, h),
                   called |-> FALSE, out |-> FALSE]

CallHasChanged ==
    /\ ~probe.called
    /\ probe' = [probe EXCEPT !.called = TRUE,
                              !.out = has_changed(probe.entry, probe.file_info)]
    /\ UNCHANGED engineVars

NextHasChanged == CallHasChanged

SpecHasChanged == InitHasChanged /\ [][NextHasChanged]_vars

\* C5: has_changed returns true exactly when the sizes differ, or the file's
\* mtime is strictly newer than the stored one, or both sides carry a
\* non-empty hash and the hashes differ.
C5_HasChangedRule ==
    probe.called =>
        LET f == probe.file_info
            e == probe.entry
        IN probe.out <=>
              \/ f.size # e.size
              \/ f.mtime > e.mtime
              \/ /\ f.file_hash \notin {"None", ""}
                 /\ e.file_hash \notin {"None", ""}
                 /\ f.file_hash # e.file_hash

\* A size difference with an older mtime is reported as a change, and an
\* equal size with an older mtime and a hash missing on one side is not.
C5_Witness ==
    /\ probe.called
    /\ probe.file_info.size = probe.entry.size
    /\ probe.file_info.mtime < probe.entry.mtime
    /\ probe.file_info.file_hash = "None"
    /\ probe.entry.file_hash = "h1"
    /\ ~probe.out

(***************************************************************************)
(* diff on every scan and manifest: SpecDiff                               *)
(***************************************************************************)
\* The scans and the manifests diff is called with: any set of paths, each
\* file and each entry with a small or a large size and an old or a recent
\* mtime.
DiffScans ==
    UNION {[S -> {1, MaxSize} \X {1, MaxMtime}] : S \in SUBSET Paths}

DiffFiles(scan) ==
    [p \in DOMAIN scan |-> FileInfo(p, scan[p][1], scan[p][2], "None")]

DiffManifest(scan) ==
    Manifest(1, "JSON", 1, 1, "/home/user/Documents", "", 1,
             [p \in DOMAIN scan |->
                 ManifestEntry(p, "", scan[p][1], scan[p][2], DefaultPermissions, 1)])

InitDiff ==
    /\ EngineInit
    /\ src = <<>>
    /\ config = BackupConfig(TRUE, FALSE)
    /\ \E scan \in DiffScans, stored \in DiffScans, how \in {"argument", "loaded", "none"} :
          probe = [op |-> "diff",
                   files |-> DiffFiles(scan),
                   manifest |-> IF how = "argument" THEN DiffManifest(stored) ELSE None,
                   stored |-> IF how = "none" THEN None ELSE DiffManifest(stored),
                   called |-> FALSE,
                   out |-> ManifestDiff(<<>>, <<>>, <<>>, <<>>)]

CallDiff ==
    /\ ~probe.called
    /\ probe' = [probe EXCEPT !.called = TRUE,
                              !.out = diff(probe.files, probe.manifest, probe.stored)]
    /\ UNCHANGED engineVars

NextDiff == CallDiff

SpecDiff == InitDiff /\ [][NextDiff]_vars

\* The number of times a file with relative path p occurs in a list of files.
Occurrences(files, p) == Cardinality({i \in 1..Len(files) : files[i].relative_path = p})

\* C4: against a loaded manifest, every scanned path occurs exactly once in
\* exactly one of new_files, modified_files, unchanged_files (in new_files
\* iff it has no entry), the three lists hold scanned files only,
\* deleted_paths is without duplicates the set of manifest paths absent from
\* the scan, and so the four lists are pairwise disjoint.
C4_DiffPartitions ==
    (probe.called /\ ~IsNone(probe.stored)) =>
        LET d == probe.out
            scanned == DOMAIN probe.files
            tracked == DOMAIN probe.stored.entries
        IN /\ \A p \in scanned :
                /\ Occurrences(d.new_files, p) + Occurrences(d.modified_files, p)
                       + Occurrences(d.unchanged_files, p) = 1
                /\ Occurrences(d.new_files, p) = 1 <=> p \notin tracked
           /\ \A f \in Range(d.new_files) \cup Range(d.modified_files)
                        \cup Range(d.unchanged_files) :
                  f.relative_path \in scanned /\ f = probe.files[f.relative_path]
           /\ Range(d.deleted_paths) = tracked \ scanned
           /\ Len(d.deleted_paths) = Cardinality(tracked \ scanned)

\* A scan of one modified file against a manifest that also tracks a path
\* which is no longer in the source.
C4_Witness ==
    /\ probe.called
    /\ ~IsNone(probe.stored)
    /\ Len(probe.out.deleted_paths) = 1
    /\ Len(probe.out.modified_files) = 1
    /\ probe.out.new_files = <<>>

(***************************************************************************)
(* save and load of the manifest file: SpecManifestFile                    *)
(***************************************************************************)
\* The entries of the manifests saved: one entry and the entries that differ
\* from it in one field.
StoredEntries(p) ==
    {ManifestEntry(p, h, size, mtime, perm, at) :
        <<h, size, mtime, perm, at>> \in
            {<<"h1", 1, 1, st_mode(p), 1>>,
             <<"", 1, 1, st_mode(p), 1>>,
             <<"h1", MaxSize, 1, st_mode(p), 1>>,
             <<"h1", 1, MaxMtime, st_mode(p), 1>>,
             <<"h1", 1, 1, DefaultPermissions, 1>>,
             <<"h1", 1, 1, st_mode(p), 2>>}}

StoredManifests ==
    UNION {{Manifest(1, "JSON", 1, at, "/home/user/Documents", host, count, entries) :
                entries \in {e \in [S -> UNION {StoredEntries(p) : p \in Paths}] :
                                \A p \in S : e[p].relative_path = p},
                <<host, count, at>> \in {<<"", 1, 1>>, <<"laptop", 2, 2>>}} :
           S \in SUBSET Paths}

\* The manifest an earlier run left on disk.
EarlierManifest ==
    Manifest(1, "JSON", 1, 1, "/home/user/Documents", "", 1, <<>>)

\* Documents that are valid JSON and no manifest: a top-level array, an
\* unknown format, a created text that is no timestamp, files that is an
\* array, a file entry that is a string; and the empty object, which every
\* key is missing from.
Malformed(data) ==
    {JArray,
     [data EXCEPT !.v.format = "xml"],
     [data EXCEPT !.v.created = [text |-> "yesterday"]],
     [data EXCEPT !.v.files = JArray],
     [data EXCEPT !.v.files = JObject([p \in Paths |-> [t |-> "string"]])]}

InitManifestFile ==
    /\ src = <<>>
    /\ dst = <<>>
    /\ config = BackupConfig(TRUE, FALSE)
    /\ pc = "idle"
    /\ result = BackupResult
    /\ source_files = <<>>
    /\ new_files = <<>>
    /\ modified_files = <<>>
    /\ futures = <<>>
    /\ backed_up_files = <<>>
    /\ run = NoCall
    /\ returned = NoRun
    /\ prev = NoRun
    /\ runs = 0
    /\ edits = 0
    /\ manifest \in StoredManifests
    /\ mfile \in {Absent, JsonText(to_dict(EarlierManifest))}
    /\ tmpfile \in {Absent, NotJson}
    /\ probe = [op |-> "none", saved |-> FALSE]

ioUnchanged == <<src, dst, config, pc, result, manifest, source_files, new_files,
                 modified_files, futures, backed_up_files, run, returned, prev,
                 runs, edits>>

\* manager.save(manifest), with an OSError at step fail ("" for none).
CallSave ==
    \E fail \in SaveFailures \cup {""} :
        LET r == save(mfile, tmpfile, manifest, fail)
        IN /\ mfile' = r.mfile
           /\ tmpfile' = r.tmpfile
           /\ probe' = [op |-> "save", ok |-> r.ok, fail |-> fail, before |-> mfile,
                        saved |-> r.ok \/ probe.saved]
           /\ UNCHANGED ioUnchanged

\* manager.load()
CallLoad ==
    /\ probe' = [op |-> "load", out |-> load(mfile, 1), saved |-> probe.saved]
    /\ UNCHANGED <<mfile, tmpfile>>
    /\ UNCHANGED ioUnchanged

\* The manifest file is damaged from outside: made unreadable, overwritten
\* by garbage or cut short, or replaced by a JSON document that is no
\* manifest.
DamageManifestFile ==
    /\ exists(mfile)
    /\ \E file \in {Unreadable, NotJson, JsonText(JObject(<<>>))}
                   \cup {JsonText(d) : d \in Malformed(to_dict(manifest))} :
          /\ mfile # file
          /\ mfile' = file
    /\ probe' = [op |-> "damage", saved |-> FALSE]
    /\ UNCHANGED tmpfile
    /\ UNCHANGED ioUnchanged

NextManifestFile == CallSave \/ CallLoad \/ DamageManifestFile

SpecManifestFile == InitManifestFile /\ [][NextManifestFile]_vars

C7_LoadNeverRaises == probe.op = "load" => ~Raised(probe.out)

\* C8: after a successful save, load gives a manifest with the same source,
\* hostname, backup_count and entry paths, and for every entry the same
\* hash, size, mtime, permissions and backed_up_at.
C8_RoundTrip ==
    (probe.op = "load" /\ probe.saved) =>
        /\ ~Raised(probe.out)
        /\ ~IsNone(probe.out.value)
        /\ LET m == probe.out.value
           IN /\ m.source = manifest.source
              /\ m.hostname = manifest.hostname
              /\ m.backup_count = manifest.backup_count
              /\ DOMAIN m.entries = DOMAIN manifest.entries
              /\ \A p \in DOMAIN manifest.entries :
                    /\ m.entries[p].file_hash = manifest.entries[p].file_hash
                    /\ m.entries[p].size = manifest.entries[p].size
                    /\ m.entries[p].mtime = manifest.entries[p].mtime
                    /\ m.entries[p].permissions = manifest.entries[p].permissions
                    /\ m.entries[p].backed_up_at = manifest.entries[p].backed_up_at

\* A manifest with an entry for every path, one of them with a digest, is
\* saved over an earlier one and loaded back.
C8_Witness ==
    /\ probe.op = "load"
    /\ probe.saved
    /\ DOMAIN manifest.entries = Paths
    /\ \E p \in Paths : manifest.entries[p].file_hash = "h1"
    /\ manifest.hostname = "laptop"
    /\ ~Raised(probe.out)

(***************************************************************************)
(* FileScanner.scan and ChangeDetector.detect_changes                      *)
(***************************************************************************)
\* A regular, not excluded file of the source tree: its size, its mtime and
\* the MD5 digest of its content.
SourceFile(size, mtime, digest) == [size |-> size, mtime |-> mtime, digest |-> digest]

\* FileScanner._scan_recursive: the hash recorded for a file.
file_hash_of(f, cfg) ==
    IF cfg.use_hash_verification /\ f.size >= cfg.min_file_size_for_hash
    THEN f.digest
    ELSE "None"

\* FileScanner.scan
scan(tree, cfg) ==
    [p \in DOMAIN tree |->
        FileInfo(p, tree[p].size, tree[p].mtime, file_hash_of(tree[p], cfg))]

\* A mutant of needs_update: any difference of the mtimes counts.
needs_update_mtime_differs(self, other, use_hash) ==
    self.size # other.size \/ self.mtime # other.mtime

\* FileInfo.needs_update
needs_update(self, other, use_hash) ==
    IF self.size # other.size THEN TRUE
    ELSE IF self.mtime > other.mtime THEN TRUE
    ELSE IF use_hash /\ Truthy(self.file_hash) /\ Truthy(other.file_hash)
         THEN self.file_hash # other.file_hash
    ELSE FALSE

\* The files of a scan whose paths are in the sequence order.
FilesAt(files, order) == [i \in 1..Len(order) |-> files[order[i]]]

\* The relative paths of a list of files.
PathsOf(files) == {files[i].relative_path : i \in 1..Len(files)}

\* ChangeDetector.detect_changes against the files backup under the target.
detect_changes(files, backup, use_hash) ==
    LET order == Ascending(DOMAIN files)
        backup_info(q) == FileInfo(q, backup[q].size, backup[q].mtime, "None")
    IN [new_files |->
            FilesAt(files, SelectSeq(order, LAMBDA q : q \notin DOMAIN backup)),
        modified_files |->
            FilesAt(files, SelectSeq(order, LAMBDA q :
                /\ q \in DOMAIN backup
                /\ needs_update(files[q], backup_info(q), use_hash))),
        deleted_files |->
            SelectSeq(Ascending(DOMAIN backup), LAMBDA q : q \notin DOMAIN files)]

(***************************************************************************)
(* BackupEngine                                                            *)
(***************************************************************************)
\* The outcomes of _validate_paths: the paths are valid, the source
\* directory does not exist, the backup path does not exist, the write probe
\* raises before .write_test is created, the write probe raises with
\* .write_test created (write_text raises after the open, or unlink raises).
Validations == {"ok", "no source", "no backup path", "not writable", "probe not removed"}

\* What _validate_paths leaves under the backup path.
probe_left(v) == IF v = "probe not removed" THEN {".write_test"} ELSE {}

\* BackupEngine._validate_paths
validate_paths(v) == v = "ok"

\* The outcomes of _copy_single_file: the value it returns and how much of
\* the destination file shutil.copy2 has written when it returns. A
\* PermissionError is raised before the destination is opened; an OSError
\* raised after the destination was opened for writing leaves it cut short.
CopyOutcomes ==
    {[success |-> TRUE, message |-> "OK", written |-> "all"],
     [success |-> FALSE, message |-> "Permission denied", written |-> "nothing"],
     [success |-> FALSE, message |-> "OS error", written |-> "part"],
     [success |-> FALSE, message |-> "exception", written |-> "nothing"]}

\* The mtime of a file written now: later than every mtime of the source.
now_mtime == MaxMtime + 1

\* BackupEngine._copy_single_file: the files under the target afterwards.
copy_single_file(backup, tree, q, outcome) ==
    IF outcome.written = "nothing" THEN backup
    ELSE [r \in DOMAIN backup \cup {q} |->
            IF r # q THEN backup[r]
            ELSE IF outcome.written = "all"
                 THEN [size |-> tree[q].size, mtime |-> tree[q].mtime]
                 ELSE [size |-> 0, mtime |-> now_mtime]]

\* A mutant of collect: a failed copy is counted and leaves no tuple.
collect_no_error_tuple(res, file_info, action, outcome) ==
    IF outcome.success
    THEN [res EXCEPT !.copied_files = IF action = "COPIED" THEN @ + 1 ELSE @,
                     !.updated_files = IF action = "COPIED" THEN @ ELSE @ + 1,
                     !.copied_size = @ + file_info.size,
                     !.file_actions =
                         Append(@, <<file_info.relative_path, action, outcome.message>>)]
    ELSE [res EXCEPT !.errors = @ + 1]

\* A mutant of collect: the size of a file is added to copied_size whether
\* or not its copy succeeded.
collect_adds_every_size(res, file_info, action, outcome) ==
    IF outcome.success
    THEN [res EXCEPT !.copied_files = IF action = "COPIED" THEN @ + 1 ELSE @,
                     !.updated_files = IF action = "COPIED" THEN @ ELSE @ + 1,
                     !.copied_size = @ + file_info.size,
                     !.file_actions =
                         Append(@, <<file_info.relative_path, action, outcome.message>>)]
    ELSE [res EXCEPT !.errors = @ + 1,
                     !.copied_size = @ + file_info.size,
                     !.file_actions =
                         Append(@, <<file_info.relative_path, "ERROR", outcome.message>>)]

\* BackupEngine._copy_files: the result after the loop over as_completed
\* has handled one future.
collect(res, file_info, action, outcome) ==
    IF outcome.success
    THEN [res EXCEPT !.copied_files = IF action = "COPIED" THEN @ + 1 ELSE @,
                     !.updated_files = IF action = "COPIED" THEN @ ELSE @ + 1,
                     !.copied_size = @ + file_info.size,
                     !.file_actions =
                         Append(@, <<file_info.relative_path, action, outcome.message>>)]
    ELSE [res EXCEPT !.errors = @ + 1,
                     !.file_actions =
                         Append(@, <<file_info.relative_path, "ERROR", outcome.message>>)]

\* The future of a file of a batch: queued until its batch is submitted,
\* pending until a worker has run _copy_single_file, done until the loop
\* over as_completed has handled it.
Future(action, state, outcome) == [action |-> action, state |-> state, outcome |-> outcome]
NoOutcome == [success |-> FALSE, message |-> "", written |-> "nothing"]

BatchOf(action) == {q \in DOMAIN futures : futures[q].action = action}

\* The source trees at the start: old files, the first path a small file and
\* every other one a file of the size that is hashed.
InitialTrees ==
    {[q \in S |-> SourceFile(IF q = 1 THEN 1 ELSE MaxSize, 1, "h1")] : S \in SUBSET Paths}

\* The files an edit can write: with hashing off, or below the size that is
\* hashed, the digest is never read and is left as it is created.
SourceFiles(cfg) ==
    {SourceFile(size, mtime, digest) :
        <<size, mtime, digest>> \in
            {t \in Sizes \X Mtimes \X Digests :
                t[3] = "h1" \/ (cfg.use_hash_verification
                                /\ t[1] >= cfg.min_file_size_for_hash)}}

\* The engine with log_to_file off, on a destination without a backup.
Init ==
    /\ EngineInit
    /\ src \in InitialTrees
    /\ \E use_manifest \in BOOLEAN, use_hash \in BOOLEAN :
          /\ use_hash => use_manifest
          /\ config = [BackupConfig(use_manifest, use_hash) EXCEPT !.log_to_file = FALSE]
    /\ probe = [op |-> "none"]

\* The engine with log_to_file on, as by default, and no hash verification.
InitLog ==
    /\ EngineInit
    /\ src \in InitialTrees
    /\ \E use_manifest \in BOOLEAN : config = BackupConfig(use_manifest, FALSE)
    /\ probe = [op |-> "none"]

\* The user writes or deletes a file of the source tree between two runs.
EditSource ==
    /\ pc = "idle"
    /\ edits < MaxEdits
    /\ edits' = edits + 1
    /\ \E q \in Paths :
          \/ /\ q \in DOMAIN src
             /\ src' = [r \in DOMAIN src \ {q} |-> src[r]]
          \/ \E f \in SourceFiles(config) :
                /\ q \in DOMAIN src => src[q] # f
                /\ src' = [r \in DOMAIN src \cup {q} |-> IF r = q THEN f ELSE src[r]]
    /\ UNCHANGED <<dst, mfile, tmpfile, config, pc, result, manifest, source_files,
                   new_files, modified_files, futures, backed_up_files, run,
                   returned, prev, runs, probe>>

\* A mutant of except_clause: the exception is logged and not counted.
except_clause_not_counted(res) == res

\* The except clause of run_backup.
except_clause(res) == [res EXCEPT !.errors = @ + 1]

\* The outcomes of _write_log_file: the log is written, mkdir of the log
\* directory raises, open or write of the log file raises with the file
\* created.
LogOutcomes == {"written", "mkdir fails", "write fails"}

\* What _write_log_file creates under the backup path.
log_left(outcome) == IF outcome = "mkdir fails" THEN {} ELSE {"log file"}

\* run_backup is called: the result is reset and the paths are validated.
RunBackup ==
    /\ pc = "idle"
    /\ runs < MaxRuns
    /\ runs' = runs + 1
    /\ result' = BackupResult
    /\ backed_up_files' = <<>>
    /\ source_files' = <<>>
    /\ new_files' = <<>>
    /\ modified_files' = <<>>
    /\ futures' = <<>>
    /\ \E v \in Validations :
          /\ run' = [NoCall EXCEPT !.valid = v, !.created = probe_left(v)]
          /\ pc' = IF validate_paths(v) THEN "init" ELSE "finally"
    /\ UNCHANGED <<src, dst, mfile, tmpfile, config, manifest, returned, prev,
                   edits, probe>>

\* run_backup is called on a DryRunBackupEngine.
RunDryBackup ==
    /\ pc = "idle"
    /\ runs < MaxRuns
    /\ runs' = runs + 1
    /\ result' = BackupResult
    /\ backed_up_files' = <<>>
    /\ source_files' = <<>>
    /\ new_files' = <<>>
    /\ modified_files' = <<>>
    /\ futures' = <<>>
    /\ \E v \in Validations :
          /\ run' = [NoCall EXCEPT !.engine = "DryRunBackupEngine",
                                   !.valid = v, !.created = probe_left(v)]
          /\ pc' = IF validate_paths(v) THEN "init" ELSE "finally"
    /\ UNCHANGED <<src, dst, mfile, tmpfile, config, manifest, returned, prev,
                   edits, probe>>

\* Steps 2 to 4 of run_backup: the backup target is created and the manifest
\* is loaded or created. An exception that leaves load is caught by the
\* except clause of run_backup.
InitComponents ==
    /\ pc = "init"
    /\ LET r == IF config.use_manifest THEN load(mfile, runs) ELSE [value |-> None]
       IN IF Raised(r)
          THEN /\ result' = except_clause(result)
               /\ run' = [run EXCEPT !.raised = TRUE]
               /\ pc' = "finally"
               /\ UNCHANGED manifest
          ELSE /\ manifest' =
                     IF config.use_manifest
                     THEN LET m == load_or_create(mfile, config.source_path, runs)
                          IN IF config.device_name # ""
                             THEN [m EXCEPT !.hostname = config.device_name]
                             ELSE m
                     ELSE manifest
               /\ pc' = "scan"
               /\ UNCHANGED <<result, run>>
    /\ UNCHANGED <<src, dst, mfile, tmpfile, config, source_files, new_files,
                   modified_files, futures, backed_up_files, returned, prev, runs,
                   edits, probe>>

\* Step 3 with an OSError of backup_target.mkdir, caught by the except
\* clause of run_backup.
MkdirRaises ==
    /\ pc = "init"
    /\ result' = except_clause(result)
    /\ run' = [run EXCEPT !.raised = TRUE]
    /\ pc' = "finally"
    /\ UNCHANGED <<src, dst, mfile, tmpfile, config, manifest, source_files,
                   new_files, modified_files, futures, backed_up_files, returned,
                   prev, runs, edits, probe>>

\* Step 5: the source is scanned; with no file found run_backup returns.
ScanSource ==
    /\ pc = "scan"
    /\ source_files' = scan(src, config)
    /\ pc' = IF DOMAIN src = {} THEN "finally" ELSE "diff"
    /\ UNCHANGED <<src, dst, mfile, tmpfile, config, result, manifest, new_files,
                   modified_files, futures, backed_up_files, run, returned, prev,
                   runs, edits, probe>>

\* Step 5 with an exception of os.scandir on the source directory: it is
\* caught in scan, which returns the files found so far, none, and
\* run_backup returns.
ScandirRaises ==
    /\ pc = "scan"
    /\ source_files' = <<>>
    /\ run' = [run EXCEPT !.scan_error = TRUE]
    /\ pc' = "finally"
    /\ UNCHANGED <<src, dst, mfile, tmpfile, config, result, manifest, new_files,
                   modified_files, futures, backed_up_files, returned, prev,
                   runs, edits, probe>>

\* Steps 6 and 7: the changes are detected, by the manifest or by the
\* ChangeDetector, and the totals are set.
DetectChanges ==
    /\ pc = "diff"
    /\ LET d == IF config.use_manifest /\ ~IsNone(manifest)
                THEN diff(source_files, manifest, None)
                ELSE detect_changes(source_files, dst, config.use_hash_verification)
       IN /\ new_files' = d.new_files
          /\ modified_files' = d.modified_files
          /\ futures' = [q \in PathsOf(d.new_files) \cup PathsOf(d.modified_files) |->
                            Future(IF q \in PathsOf(d.new_files) THEN "COPIED" ELSE "UPDATED",
                                   "queued", NoOutcome)]
    /\ result' = [result EXCEPT
                     !.total_files = Cardinality(DOMAIN source_files),
                     !.total_size = SumOver([q \in DOMAIN source_files |-> source_files[q].size],
                                            DOMAIN source_files)]
    /\ pc' = "copy new"
    /\ UNCHANGED <<src, dst, mfile, tmpfile, config, manifest, source_files,
                   backed_up_files, run, returned, prev, runs, edits, probe>>

\* The positions of run_backup before, in and after the batch of an action.
BatchStart(action) == IF action = "COPIED" THEN "copy new" ELSE "copy modified"
BatchRunning(action) == IF action = "COPIED" THEN "copying new" ELSE "copying modified"
BatchEnd(action) == IF action = "COPIED" THEN "copy modified" ELSE "update"
BatchFiles(action) == IF action = "COPIED" THEN new_files ELSE modified_files

\* A mutant of SubmitBatch: the files of both batches are submitted at once.
SubmitBatch_both(action) ==
    /\ pc = BatchStart(action)
    /\ IF BatchFiles(action) = <<>>
       THEN /\ pc' = BatchEnd(action)
            /\ UNCHANGED futures
       ELSE /\ pc' = BatchRunning(action)
            /\ futures' = [q \in DOMAIN futures |->
                              IF futures[q].state = "queued"
                              THEN Future(futures[q].action, "pending", NoOutcome)
                              ELSE futures[q]]
    /\ UNCHANGED <<src, dst, mfile, tmpfile, config, result, manifest, source_files,
                   new_files, modified_files, backed_up_files, run, returned, prev,
                   runs, edits, probe>>

\* Step 8, _copy_files: every file of the batch is submitted to the
\* executor; an empty batch is not run.
SubmitBatch(action) ==
    /\ pc = BatchStart(action)
    /\ IF BatchFiles(action) = <<>>
       THEN /\ pc' = BatchEnd(action)
            /\ UNCHANGED futures
       ELSE /\ pc' = BatchRunning(action)
            /\ futures' = [q \in DOMAIN futures |->
                              IF futures[q].action = action
                              THEN Future(action, "pending", NoOutcome)
                              ELSE futures[q]]
    /\ UNCHANGED <<src, dst, mfile, tmpfile, config, result, manifest, source_files,
                   new_files, modified_files, backed_up_files, run, returned, prev,
                   runs, edits, probe>>

\* Step 8 with a RuntimeError of the first executor.submit (no thread can
\* be started): it leaves _copy_files and is caught by the except clause of
\* run_backup.
SubmitRaises(action) ==
    /\ pc = BatchStart(action)
    /\ BatchFiles(action) # <<>>
    /\ result' = except_clause(result)
    /\ run' = [run EXCEPT !.raised = TRUE]
    /\ pc' = "finally"
    /\ UNCHANGED <<src, dst, mfile, tmpfile, config, manifest, source_files,
                   new_files, modified_files, futures, backed_up_files, returned,
                   prev, runs, edits, probe>>

\* A worker thread runs DryRunBackupEngine._copy_single_file on a submitted
\* file: nothing is copied and success is returned.
DryRunWorker(q) ==
    /\ pc \in {"copying new", "copying modified"}
    /\ run.engine = "DryRunBackupEngine"
    /\ q \in DOMAIN futures
    /\ futures[q].state = "pending"
    /\ futures' = [futures EXCEPT ![q] =
                      Future(@.action, "done",
                             [success |-> TRUE, message |-> "DRY-RUN", written |-> "nothing"])]
    /\ UNCHANGED <<src, dst, mfile, tmpfile, config, pc, result, manifest, source_files,
                   new_files, modified_files, backed_up_files, run, returned, prev,
                   runs, edits, probe>>

\* A worker thread runs _copy_single_file on a submitted file.
Worker(q) ==
    /\ pc \in {"copying new", "copying modified"}
    /\ run.engine = "BackupEngine"
    /\ q \in DOMAIN futures
    /\ futures[q].state = "pending"
    /\ \E outcome \in CopyOutcomes :
          /\ dst' = copy_single_file(dst, src, q, outcome)
          /\ futures' = [futures EXCEPT ![q] = Future(@.action, "done", outcome)]
    /\ UNCHANGED <<src, mfile, tmpfile, config, pc, result, manifest, source_files,
                   new_files, modified_files, backed_up_files, run, returned, prev,
                   runs, edits, probe>>

\* A mutant of Collect: a file is appended to _backed_up_files whether or
\* not its copy succeeded.
Collect_records_failed(q) ==
    /\ pc \in {"copying new", "copying modified"}
    /\ q \in DOMAIN futures
    /\ futures[q].state = "done"
    /\ result' = collect(result, source_files[q], futures[q].action, futures[q].outcome)
    /\ backed_up_files' = Append(backed_up_files, source_files[q])
    /\ futures' = [futures EXCEPT ![q].state = "collected"]
    /\ UNCHANGED <<src, dst, mfile, tmpfile, config, pc, manifest, source_files,
                   new_files, modified_files, run, returned, prev, runs, edits, probe>>

\* The loop over as_completed handles a finished future under the lock.
Collect(q) ==
    /\ pc \in {"copying new", "copying modified"}
    /\ q \in DOMAIN futures
    /\ futures[q].state = "done"
    /\ result' = collect(result, source_files[q], futures[q].action, futures[q].outcome)
    /\ backed_up_files' = IF futures[q].outcome.success
                          THEN Append(backed_up_files, source_files[q])
                          ELSE backed_up_files
    /\ futures' = [futures EXCEPT ![q].state = "collected"]
    /\ UNCHANGED <<src, dst, mfile, tmpfile, config, pc, manifest, source_files,
                   new_files, modified_files, run, returned, prev, runs, edits, probe>>

\* A mutant of FinishBatch: _copy_files returns without waiting for the
\* futures of the batch.
FinishBatch_without_join(action) ==
    /\ pc = BatchRunning(action)
    /\ pc' = BatchEnd(action)
    /\ UNCHANGED <<src, dst, mfile, tmpfile, config, result, manifest, source_files,
                   new_files, modified_files, futures, backed_up_files, run, returned,
                   prev, runs, edits, probe>>

\* _copy_files returns when every future of the batch has been handled.
FinishBatch(action) ==
    /\ pc = BatchRunning(action)
    /\ \A q \in BatchOf(action) : futures[q].state = "collected"
    /\ pc' = BatchEnd(action)
    /\ UNCHANGED <<src, dst, mfile, tmpfile, config, result, manifest, source_files,
                   new_files, modified_files, futures, backed_up_files, run, returned,
                   prev, runs, edits, probe>>

\* The skipped files are counted and, step 9, the manifest is updated with
\* the files backed up and saved; a failed save is a warning. Every failure
\* of save leaves the same files, so one of them stands for all.
UpdateManifest ==
    /\ pc = "update"
    /\ result' = [result EXCEPT !.skipped_files =
                     Cardinality(DOMAIN source_files) - Len(new_files) - Len(modified_files)]
    /\ IF config.use_manifest /\ ~IsNone(manifest)
       THEN \E fail \in {"", "replace"} :
               LET m == update_from_backup(manifest, backed_up_files, <<>>, runs, FALSE)
                   r == save(mfile, tmpfile, m, fail)
               IN /\ manifest' = m
                  /\ mfile' = r.mfile
                  /\ tmpfile' = r.tmpfile
                  /\ run' = [run EXCEPT !.saved = r.ok]
       ELSE UNCHANGED <<manifest, mfile, tmpfile, run>>
    /\ pc' = "finally"
    /\ UNCHANGED <<src, dst, config, source_files, new_files, modified_files,
                   futures, backed_up_files, returned, prev, runs, edits, probe>>

\* What a call of run_backup leaves behind: the counters of its result, the
\* source tree it ran on, its classification and the outcome of each copy.
Returned ==
    [called |-> TRUE,
     valid |-> validate_paths(run.valid),
     saved |-> run.saved,
     raised |-> run.raised,
     total_files |-> result.total_files,
     copied_files |-> result.copied_files,
     updated_files |-> result.updated_files,
     skipped_files |-> result.skipped_files,
     deleted_files |-> result.deleted_files,
     errors |-> result.errors,
     total_size |-> result.total_size,
     copied_size |-> result.copied_size,
     tree |-> src,
     new |-> PathsOf(new_files),
     modified |-> PathsOf(modified_files),
     attempted |-> {q \in DOMAIN futures : futures[q].state = "collected"},
     succeeded |-> {q \in DOMAIN futures :
                       futures[q].state = "collected" /\ futures[q].outcome.success}]

\* The finally clause: end_time is set and, with log_to_file, the log file
\* is written; an exception of _write_log_file leaves run_backup.
Finally ==
    /\ pc = "finally"
    /\ result' = [result EXCEPT !.end_time = runs]
    /\ IF config.log_to_file
       THEN \E outcome \in LogOutcomes :
               run' = [run EXCEPT !.log = outcome,
                                  !.created = @ \cup log_left(outcome),
                                  !.escaped = outcome # "written"]
       ELSE UNCHANGED run
    /\ pc' = "return"
    /\ UNCHANGED <<src, dst, mfile, tmpfile, config, manifest, source_files,
                   new_files, modified_files, futures, backed_up_files, returned,
                   prev, runs, edits, probe>>

\* run_backup returns self.result, or the exception of _write_log_file
\* leaves it. The caller keeps the result and drops the engine; the next
\* call is made on an engine constructed anew.
Return ==
    /\ pc = "return"
    /\ prev' = returned
    /\ returned' = Returned
    /\ pc' = "idle"
    /\ result' = BackupResult
    /\ manifest' = None
    /\ source_files' = <<>>
    /\ new_files' = <<>>
    /\ modified_files' = <<>>
    /\ futures' = <<>>
    /\ backed_up_files' = <<>>
    /\ run' = NoCall
    /\ UNCHANGED <<src, dst, mfile, tmpfile, config, runs, edits, probe>>

Next ==
    \/ EditSource
    \/ RunBackup
    \/ InitComponents
    \/ ScanSource
    \/ DetectChanges
    \/ \E action \in {"COPIED", "UPDATED"} : SubmitBatch(action)
    \/ \E q \in Paths : Worker(q)
    \/ \E q \in Paths : Collect(q)
    \/ \E action \in {"COPIED", "UPDATED"} : FinishBatch(action)
    \/ UpdateManifest
    \/ Finally
    \/ Return

\* The runs of the engine with log_to_file off, over a source that is
\* edited between the runs, when no exception reaches the except clause.
Spec == Init /\ [][Next]_vars

\* The runs of the engine with log_to_file on, over a source that is left
\* as it is, with the exceptions of mkdir, os.scandir and submit.
NextLog ==
    \/ RunBackup
    \/ InitComponents
    \/ MkdirRaises
    \/ ScanSource
    \/ ScandirRaises
    \/ DetectChanges
    \/ \E action \in {"COPIED", "UPDATED"} : SubmitBatch(action)
    \/ \E action \in {"COPIED", "UPDATED"} : SubmitRaises(action)
    \/ \E q \in Paths : Worker(q)
    \/ \E q \in Paths : Collect(q)
    \/ \E action \in {"COPIED", "UPDATED"} : FinishBatch(action)
    \/ UpdateManifest
    \/ Finally
    \/ Return

SpecLog == InitLog /\ [][NextLog]_vars

(***************************************************************************)
(* Claims on BackupEngine.run_backup                                       *)
(***************************************************************************)
\* The last two calls of run_backup were full runs: the paths were valid
\* and no exception reached the except clause.
TwoRuns ==
    /\ pc = "idle"
    /\ prev.called
    /\ returned.called
    /\ prev.valid
    /\ returned.valid
    /\ ~prev.raised
    /\ ~returned.raised

\* Tree t has the files of tree s, each with the same size and a
\* same-or-older mtime.
SameSizeNotNewer(s, t) ==
    /\ DOMAIN s = DOMAIN t
    /\ \A q \in DOMAIN s : t[q].size = s[q].size /\ t[q].mtime <= s[q].mtime

\* Tree t has the files of tree s, each with the same content.
SameContent(s, t) ==
    /\ DOMAIN s = DOMAIN t
    /\ \A q \in DOMAIN s : t[q].digest = s[q].digest

\* The files of a call whose copy was attempted and failed.
Failed(r) == r.attempted \ r.succeeded

\* C1 as stated: after a manifest-enabled run in which every copy succeeded
\* and the manifest was saved, a second run over a source whose files all
\* have the same size and a same-or-older mtime reports copied_files = 0 and
\* skipped_files equal to the copied_files of the first run.
C1_SkippedEqualsCopied ==
    (/\ TwoRuns
     /\ config.use_manifest
     /\ prev.errors = 0
     /\ prev.saved
     /\ SameSizeNotNewer(prev.tree, returned.tree))
    => /\ returned.copied_files = 0
       /\ returned.skipped_files = prev.copied_files

\* C1 amended: after a manifest-enabled run in which every copy succeeded
\* and the manifest was saved, a second run over a source whose files all
\* have the same content, the same size and a same-or-older mtime reports
\* copied_files = 0, updated_files = 0 and skipped_files equal to the
\* total_files of the first run, the sum of its copied_files, updated_files
\* and skipped_files.
C1_SkippedEqualsTotal ==
    (/\ TwoRuns
     /\ config.use_manifest
     /\ prev.errors = 0
     /\ prev.saved
     /\ SameSizeNotNewer(prev.tree, returned.tree)
     /\ SameContent(prev.tree, returned.tree))
    => /\ returned.copied_files = 0
       /\ returned.updated_files = 0
       /\ returned.skipped_files = prev.total_files
       /\ prev.total_files =
              prev.copied_files + prev.updated_files + prev.skipped_files

\* The first of the two runs updated one tracked file and skipped another;
\* the second run skips both.
C1_Witness ==
    /\ TwoRuns
    /\ config.use_manifest
    /\ prev.errors = 0
    /\ prev.saved
    /\ SameSizeNotNewer(prev.tree, returned.tree)
    /\ SameContent(prev.tree, returned.tree)
    /\ prev.copied_files = 0
    /\ prev.updated_files = 1
    /\ prev.skipped_files = 1
    /\ returned.skipped_files = 2

\* C2: no entry is added or refreshed for a file whose copy failed, and
\* after every run each entry of the saved manifest names a file that
\* exists under the backup target with the size of the entry.
C2_ManifestReflectsDestination ==
    /\ (pc = "finally" /\ config.use_manifest /\ ~IsNone(manifest)) =>
          \A q \in DOMAIN futures :
              (/\ futures[q].state = "collected"
               /\ ~futures[q].outcome.success
               /\ q \in DOMAIN manifest.entries)
              => manifest.entries[q].backed_up_at # runs
    /\ (pc = "idle" /\ mfile # Absent) =>
          LET m == load(mfile, runs).value
          IN \A q \in DOMAIN m.entries :
                /\ q \in DOMAIN dst
                /\ dst[q].size = m.entries[q].size

C10_InvalidPathsReportErrors ==
    (returned.called /\ ~returned.valid)
    => /\ returned.total_files = 0
       /\ returned.copied_files = 0
       /\ returned.updated_files = 0
       /\ returned.skipped_files = 0
       /\ returned.deleted_files = 0
       /\ returned.total_size = 0
       /\ returned.copied_size = 0
       /\ returned.errors >= 1

\* The runs of BackupEngine and DryRunBackupEngine on one destination, with
\* log_to_file off, over a source that is left as it is.
NextDryRun ==
    \/ RunBackup
    \/ RunDryBackup
    \/ InitComponents
    \/ ScanSource
    \/ DetectChanges
    \/ \E action \in {"COPIED", "UPDATED"} : SubmitBatch(action)
    \/ \E q \in Paths : Worker(q)
    \/ \E q \in Paths : DryRunWorker(q)
    \/ \E q \in Paths : Collect(q)
    \/ \E action \in {"COPIED", "UPDATED"} : FinishBatch(action)
    \/ UpdateManifest
    \/ Finally
    \/ Return

SpecDryRun == Init /\ [][NextDryRun]_vars

(***************************************************************************)
(* Claims on validation, the except clause and the log file                *)
(***************************************************************************)
\* The files of the call whose copy has failed.
FailedCopies ==
    {q \in DOMAIN futures : futures[q].state = "collected" /\ ~futures[q].outcome.success}

\* C11: when _validate_paths fails, run_backup has scanned nothing, copied
\* nothing, loaded and saved no manifest and created nothing under the
\* backup path when it returns.
C11_InvalidPathsLeaveNothing ==
    (pc = "return" /\ ~validate_paths(run.valid))
    => /\ source_files = <<>>
       /\ futures = <<>>
       /\ backed_up_files = <<>>
       /\ IsNone(manifest)
       /\ ~run.saved
       /\ run.created = {}

\* C12 as stated: an exception raised during scanning, diffing, copying or
\* the manifest update adds one to errors, end_time is set and the log file
\* is written before run_backup returns.
C12_ExceptionCounted ==
    (pc = "return" /\ (run.raised \/ run.scan_error))
    => /\ result.errors = Cardinality(FailedCopies) + 1
       /\ result.end_time = runs
       /\ run.log # "none"

\* C12 amended: an exception that reaches the except clause of run_backup
\* adds one to errors, end_time is set and the log file is written before
\* run_backup returns; an exception raised during scanning is caught in
\* scan and adds nothing to errors.
C12_ReachingExceptClauseCounted ==
    /\ (pc = "return" /\ run.raised)
       => /\ result.errors = Cardinality(FailedCopies) + 1
          /\ result.end_time = runs
          /\ run.log # "none"
    /\ (pc = "return" /\ run.scan_error)
       => /\ result.errors = 0
          /\ result.end_time = runs
          /\ run.log # "none"

\* The copy of a new file has failed and submitting the batch of the
\* modified files raises: errors is 2 and the log file is written.
C12_Witness ==
    /\ pc = "return"
    /\ run.raised
    /\ Cardinality(FailedCopies) = 1
    /\ result.errors = 2
    /\ result.end_time = runs
    /\ run.log = "written"

\* C13: when writing the log file fails, run_backup returns the result and
\* no exception leaves it.
C13_LogFailureNotFatal ==
    (pc = "return" /\ run.log \in {"mkdir fails", "write fails"}) => ~run.escaped

(***************************************************************************)
(* Claims on DryRunBackupEngine                                            *)
(***************************************************************************)
\* C14: no step of a run_backup of DryRunBackupEngine changes the manifest
\* file under the backup target.
C14_DryRunKeepsManifestFile ==
    [][run.engine = "DryRunBackupEngine" => mfile' = mfile]_vars

\* C15: when a run_backup of BackupEngine returns with errors = 0, every
\* file of its source scan exists under the backup target, whatever dry
\* runs came before.
C15_NoFileMissedAfterDryRun ==
    (/\ pc = "return"
     /\ run.engine = "BackupEngine"
     /\ validate_paths(run.valid)
     /\ result.errors = 0)
    => \A q \in DOMAIN source_files : q \in DOMAIN dst

(***************************************************************************)
(* Claims on deletions                                                     *)
(***************************************************************************)
\* The paths with an entry in the manifest file.
EntriesOf(file) ==
    IF file = Absent THEN {} ELSE DOMAIN load(file, 0).value.entries

\* C16: no step of run_backup removes a file under the backup target or an
\* entry of the manifest file, and deleted_files stays 0.
C16_NothingDeleted ==
    [][/\ DOMAIN dst \subseteq DOMAIN dst'
       /\ EntriesOf(mfile) \subseteq EntriesOf(mfile')
       /\ result'.deleted_files = 0
       /\ returned'.called => returned'.deleted_files = 0]_vars

\* A path was backed up and then deleted from the source; after the next
\* run, which saved the manifest, it is still under the backup target and
\* in the manifest.
C16_Witness ==
    /\ pc = "idle"
    /\ returned.called
    /\ returned.valid
    /\ returned.saved
    /\ returned.deleted_files = 0
    /\ \E q \in DOMAIN dst \ DOMAIN returned.tree : q \in EntriesOf(mfile)

(***************************************************************************)
(* Legacy-layout migration: SpecMigrate                                    *)
(***************************************************************************)
\* run_backup calls of the migration specification, and the clock values
\* int(time.time()) can take.
MaxCalls == 5
MaxNow == 2

DeviceNames == {"laptop", "tablet"}

LEGACY_MANIFEST == ".smartbackup_manifest.json"
LEGACY_LOGS == "_backup_logs"

\* An entry of a directory: a file, or a directory with the names it holds.
FileItem == [kind |-> "file", items |-> {}]
DirItem(names) == [kind |-> "dir", items |-> names]

NoItems == [n \in {} |-> FileItem]

\* The backup root <backup_path>/<backup_folder_name>.
NoRoot == [exists |-> FALSE, items |-> NoItems]

\* f".migration_temp_{int(time.time())}"
temp_name(now) == IF now = 1 THEN ".migration_temp_1" ELSE ".migration_temp_2"

MigrationOutcomes == {"ok", "rename raises"}

\* Path.mkdir(parents=True, exist_ok=True) of a directory below the root,
\* and of the root itself.
mkdir_root(root) == [root EXCEPT !.exists = TRUE]

mkdir_in(root, name) ==
    IF name \in DOMAIN root.items
    THEN mkdir_root(root)
    ELSE [exists |-> TRUE,
          items |-> [n \in DOMAIN root.items \cup {name} |->
                        IF n = name THEN DirItem({}) ELSE root.items[n]]]

\* Writing files and directories of the given names into a directory of
\* the root.
write_in(root, name, names) ==
    [root EXCEPT !.items[name] = DirItem(@.items \cup names)]

\* device_folder.exists()
device_folder_exists(root, device_name) == device_name \in DOMAIN root.items

\* The legacy indicators at the root level.
has_legacy_indicators(root) ==
    \/ LEGACY_MANIFEST \in DOMAIN root.items
    \/ LEGACY_LOGS \in DOMAIN root.items
    \/ \E item \in DOMAIN root.items : root.items[item].kind = "file"

\* _migrate_legacy_layout(backup_root) for config.device_name at clock now:
\* the root afterwards, the names moved or renamed, and whether it raised.
\* With outcome "rename raises" the items of moved have been moved into
\* the temporary directory when a rename raises.
migrate_legacy_layout(root, device_name, now, outcome, moved) ==
    IF ~root.exists
    THEN [root |-> root, moved |-> {}, raised |-> FALSE]
    ELSE IF ~has_legacy_indicators(root)
    THEN [root |-> root, moved |-> {}, raised |-> FALSE]
    ELSE IF device_folder_exists(root, device_name)
    THEN [root |-> root, moved |-> {}, raised |-> FALSE]
    ELSE IF temp_name(now) \in DOMAIN root.items
    THEN [root |-> root, moved |-> {}, raised |-> TRUE]
    ELSE IF outcome = "ok"
    THEN [root |-> [exists |-> TRUE,
                    items |-> [n \in {device_name} |-> DirItem(DOMAIN root.items)]],
          moved |-> DOMAIN root.items \cup {temp_name(now)},
          raised |-> FALSE]
    ELSE [root |-> [exists |-> TRUE,
                    items |-> [n \in (DOMAIN root.items \ moved) \cup {temp_name(now)} |->
                                  IF n = temp_name(now) THEN DirItem(moved)
                                  ELSE root.items[n]]],
          moved |-> moved,
          raised |-> TRUE]

\* No run_backup with a device name yet.
NoMigration ==
    [device |-> "", migrated_before |-> FALSE, found |-> FALSE, moved |-> {},
     raised |-> FALSE]

InitMigrate ==
    /\ EngineInit
    /\ src = <<>>
    /\ config = BackupConfig(TRUE, FALSE)
    /\ probe = [op |-> "migrate", root |-> NoRoot, calls |-> 0, now |-> 1,
                migrated |-> {}, last |-> NoMigration]

\* What a run_backup writes into its backup target.
TargetNames(use_manifest, log_to_file) ==
    {"a.txt"} \cup (IF use_manifest THEN {LEGACY_MANIFEST} ELSE {})
              \cup (IF log_to_file THEN {LEGACY_LOGS} ELSE {})

\* run_backup without a device name: the backup target is the root.
RunFlat ==
    /\ probe.calls < MaxCalls
    /\ \E use_manifest \in BOOLEAN, log_to_file \in BOOLEAN :
          LET names == TargetNames(use_manifest, log_to_file)
              root == mkdir_root(probe.root)
          IN  probe' = [probe EXCEPT
                  !.calls = @ + 1,
                  !.root = [exists |-> TRUE,
                            items |-> [n \in DOMAIN root.items \cup names |->
                                          IF n \in DOMAIN root.items THEN root.items[n]
                                          ELSE IF n = LEGACY_LOGS THEN DirItem({"backup.log"})
                                          ELSE FileItem]]]
    /\ UNCHANGED engineVars

\* run_backup with a device name whose validation fails: the finally
\* clause writes the log file below the root.
RunInvalid ==
    /\ probe.calls < MaxCalls
    /\ probe' = [probe EXCEPT
           !.calls = @ + 1,
           !.root = write_in(mkdir_in(probe.root, LEGACY_LOGS), LEGACY_LOGS, {"backup.log"})]
    /\ UNCHANGED engineVars

\* run_backup with a device name: the migration, then the backup into the
\* device folder; when the migration raises, the except and the finally
\* clause, which writes the log file below the root.
RunDevice(device_name) ==
    /\ probe.calls < MaxCalls
    /\ \E now \in probe.now..MaxNow, outcome \in MigrationOutcomes,
          moved \in SUBSET DOMAIN probe.root.items, log_to_file \in BOOLEAN :
          LET m == migrate_legacy_layout(probe.root, device_name, now, outcome, moved)
              target == mkdir_in(m.root, device_name)
          IN  /\ (outcome = "ok" => moved = {})
              /\ probe' = [probe EXCEPT
                     !.calls = @ + 1,
                     !.now = now,
                     !.root = IF m.raised
                              THEN IF log_to_file
                                   THEN write_in(mkdir_in(m.root, LEGACY_LOGS),
                                                 LEGACY_LOGS, {"backup.log"})
                                   ELSE m.root
                              ELSE write_in(target, device_name,
                                            TargetNames(TRUE, log_to_file)),
                     !.migrated = IF ~m.raised /\ m.moved # {}
                                  THEN @ \cup {device_name} ELSE @,
                     !.last = [device |-> device_name,
                               migrated_before |-> device_name \in probe.migrated,
                               found |-> device_folder_exists(probe.root, device_name),
                               moved |-> m.moved,
                               raised |-> m.raised]]
    /\ UNCHANGED engineVars

NextMigrate ==
    \/ RunFlat
    \/ RunInvalid
    \/ \E device_name \in DeviceNames : RunDevice(device_name)

SpecMigrate == InitMigrate /\ [][NextMigrate]_vars

\* C17: a run_backup with a device name for which a migration has moved
\* the legacy entries into the device folder finds the device folder
\* present, and its migration step moves and renames nothing under the
\* backup root.
C17_MigrationIdempotent ==
    (probe.op = "migrate" /\ probe.last.migrated_before)
    => /\ probe.last.found
       /\ probe.last.moved = {}

(***************************************************************************)
(* RestoreEngine.restore with its worker tasks: SpecRestore                *)
(***************************************************************************)
\* The relative paths of the files a backup folder can hold, and the size
\* of each.
RestorePaths == {"a.txt", "a.txt.tmp", "b.txt"}

st_size(p) == IF p = "b.txt" THEN 2 ELSE 1

\* target.with_suffix(target.suffix + ".tmp"): the name with ".tmp" added.
with_suffix_tmp(p) == p \o ".tmp"

\* The content of a file below the target path: what the target held
\* before the restore, the whole backup copy of a path, or the part of it
\* written so far.
OldContent(p) == [origin |-> "target", path |-> p, complete |-> TRUE]
BackupContent(p) == [origin |-> "backup", path |-> p, complete |-> TRUE]
PartialContent(p) == [origin |-> "backup", path |-> p, complete |-> FALSE]

\* A directory with the file name written, and with the name removed.
write_file(files, name, content) ==
    [n \in DOMAIN files \cup {name} |-> IF n = name THEN content ELSE files[n]]

remove_file(files, name) == [n \in DOMAIN files \ {name} |-> files[n]]

RestoreResult ==
    [total_files |-> 0, restored_files |-> 0, skipped_files |-> 0,
     overwritten_files |-> 0, errors |-> 0, total_size |-> 0, restored_size |-> 0,
     end_time |-> 0, file_actions |-> <<>>]

\* The future of a _restore_single_file task: the position of the task,
\* the action decided at line 285 and the tuple it returns.
RestoreFuture(state, action, success, message) ==
    [state |-> state, action |-> action, success |-> success, message |-> message]

Submitted == RestoreFuture("submitted", "", FALSE, "")

\* ConflictResolution chosen by restore from its overwrite argument.
conflict_resolution(overwrite) == IF overwrite THEN "OVERWRITE" ELSE "SKIP"

\* _collect_files without patterns: every file of the backup folder.
collect_files(backup) == backup

\* The body of the loop over as_completed in _restore_files for one future.
restore_collect(res, p, future) ==
    [res EXCEPT
        !.restored_files = IF future.success /\ future.action = "COPIED" THEN @ + 1 ELSE @,
        !.overwritten_files = IF future.success /\ future.action = "UPDATED" THEN @ + 1 ELSE @,
        !.skipped_files = IF future.success /\ future.action = "SKIPPED" THEN @ + 1 ELSE @,
        !.restored_size = IF future.success /\ future.action \in {"COPIED", "UPDATED"}
                          THEN @ + st_size(p) ELSE @,
        !.errors = IF future.success THEN @ ELSE @ + 1,
        !.file_actions = Append(@, <<p, future.action, future.message>>)]

\* RestoreEngine.__init__ with a target path: the backup folder holds the
\* files of backup, the target path the files of before.
InitRestore ==
    /\ EngineInit
    /\ src = <<>>
    /\ config = BackupConfig(TRUE, FALSE)
    /\ \E backup \in SUBSET RestorePaths, present \in SUBSET RestorePaths :
          probe = [op |-> "restore", pc |-> "idle", backup |-> backup,
                   before |-> [p \in present |-> OldContent(p)],
                   target |-> [p \in present |-> OldContent(p)],
                   overwrite |-> FALSE, dry_run |-> FALSE,
                   futures |-> [p \in {} |-> Submitted],
                   result |-> RestoreResult]

\* restore(overwrite, dry_run) up to the submission of the tasks; with no
\* file to restore it returns at once.
CallRestore ==
    /\ probe.pc = "idle"
    /\ \E overwrite \in BOOLEAN, dry_run \in BOOLEAN :
          LET files_to_restore == collect_files(probe.backup)
          IN  probe' = [probe EXCEPT
                  !.overwrite = overwrite,
                  !.dry_run = dry_run,
                  !.pc = IF files_to_restore = {} THEN "returned" ELSE "restoring",
                  !.futures = [p \in files_to_restore |-> Submitted],
                  !.result = [RestoreResult EXCEPT
                                 !.total_files = Cardinality(files_to_restore),
                                 !.total_size = SumOver([p \in files_to_restore |-> st_size(p)],
                                                        files_to_restore),
                                 !.end_time = IF files_to_restore = {} THEN 1 ELSE 0]]
    /\ UNCHANGED engineVars

\* _restore_single_file up to the dry-run return: the conflict check.
ResolveConflict(p) ==
    /\ probe.pc = "restoring"
    /\ p \in DOMAIN probe.futures
    /\ probe.futures[p].state = "submitted"
    /\ probe' = [probe EXCEPT !.futures[p] =
           IF p \in DOMAIN probe.target /\ conflict_resolution(probe.overwrite) = "SKIP"
           THEN RestoreFuture("done", "SKIPPED", TRUE, "File exists")
           ELSE IF probe.dry_run
           THEN RestoreFuture("done",
                              IF p \in DOMAIN probe.target THEN "UPDATED" ELSE "COPIED",
                              TRUE, "DRY-RUN")
           ELSE RestoreFuture("resolved", "", FALSE, "")]
    /\ UNCHANGED engineVars

\* The action is decided and shutil.copy2 opens the temporary sibling for
\* writing.
OpenTemp(p) ==
    /\ probe.pc = "restoring"
    /\ p \in DOMAIN probe.futures
    /\ probe.futures[p].state = "resolved"
    /\ probe' = [probe EXCEPT
           !.futures[p] = RestoreFuture("copying",
                                        IF p \in DOMAIN probe.target THEN "UPDATED" ELSE "COPIED",
                                        FALSE, ""),
           !.target = write_file(@, with_suffix_tmp(p), PartialContent(p))]
    /\ UNCHANGED engineVars

\* shutil.copy2 writes the rest of the file; when the name of the
\* temporary sibling has been given to another file meanwhile, the file
\* under that name is not the one being written.
CopyToTemp(p) ==
    /\ probe.pc = "restoring"
    /\ p \in DOMAIN probe.futures
    /\ probe.futures[p].state = "copying"
    /\ LET temp_path == with_suffix_tmp(p)
       IN  probe' = [probe EXCEPT
               !.futures[p].state = "copied",
               !.target = IF temp_path \in DOMAIN @ /\ @[temp_path] = PartialContent(p)
                          THEN write_file(@, temp_path, BackupContent(p))
                          ELSE @]
    /\ UNCHANGED engineVars

\* shutil.copy2 raises part way: the temporary sibling is unlinked and the
\* error is returned.
CopyFails(p) ==
    /\ probe.pc = "restoring"
    /\ p \in DOMAIN probe.futures
    /\ probe.futures[p].state = "copying"
    /\ probe' = [probe EXCEPT
           !.futures[p] = RestoreFuture("done", "ERROR", FALSE, "OS error"),
           !.target = remove_file(@, with_suffix_tmp(p))]
    /\ UNCHANGED engineVars

\* temp_path.replace(target) and the return of the tuple.
ReplaceTarget(p) ==
    /\ probe.pc = "restoring"
    /\ p \in DOMAIN probe.futures
    /\ probe.futures[p].state = "copied"
    /\ LET temp_path == with_suffix_tmp(p)
       IN  IF temp_path \in DOMAIN probe.target
           THEN probe' = [probe EXCEPT
                    !.futures[p] = RestoreFuture("done", @.action, TRUE, "OK"),
                    !.target = write_file(remove_file(@, temp_path), p, @[temp_path])]
           ELSE probe' = [probe EXCEPT
                    !.futures[p] = RestoreFuture("done", "ERROR", FALSE, "OS error")]
    /\ UNCHANGED engineVars

\* The loop over as_completed handles one finished future.
CollectRestored(p) ==
    /\ probe.pc = "restoring"
    /\ p \in DOMAIN probe.futures
    /\ probe.futures[p].state = "done"
    /\ probe' = [probe EXCEPT
           !.futures[p].state = "collected",
           !.result = restore_collect(@, p, probe.futures[p])]
    /\ UNCHANGED engineVars

\* Every future is handled: the finally clause sets end_time and restore
\* returns the result.
ReturnRestore ==
    /\ probe.pc = "restoring"
    /\ \A p \in DOMAIN probe.futures : probe.futures[p].state = "collected"
    /\ probe' = [probe EXCEPT !.pc = "returned", !.result.end_time = 1]
    /\ UNCHANGED engineVars

NextRestore ==
    \/ CallRestore
    \/ \E p \in RestorePaths :
          \/ ResolveConflict(p)
          \/ OpenTemp(p)
          \/ CopyToTemp(p)
          \/ CopyFails(p)
          \/ ReplaceTarget(p)
          \/ CollectRestored(p)
    \/ ReturnRestore

SpecRestore == InitRestore /\ [][NextRestore]_vars

\* The collected files whose target path existed before the restore.
ExistedBefore == probe.backup \cap DOMAIN probe.before

\* C18: after restore(overwrite=False) every collected file whose target
\* path existed before the run has its target content unchanged, and
\* skipped_files is the number of those files.
C18_SkipKeepsExistingFiles ==
    (probe.op = "restore" /\ probe.pc = "returned" /\ ~probe.overwrite)
    => /\ \A p \in ExistedBefore :
             p \in DOMAIN probe.target /\ probe.target[p] = probe.before[p]
       /\ probe.result.skipped_files = Cardinality(ExistedBefore)

\* C19: after restore(overwrite=True) without errors every collected file
\* has the backup content at the target, overwritten_files is the number of
\* collected files that existed at the target before and restored_files the
\* number of those that did not.
C19_OverwriteReplacesAll ==
    (/\ probe.op = "restore"
     /\ probe.pc = "returned"
     /\ probe.overwrite
     /\ ~probe.dry_run
     /\ probe.result.errors = 0)
    => /\ \A p \in probe.backup :
             p \in DOMAIN probe.target /\ probe.target[p] = BackupContent(p)
       /\ probe.result.overwritten_files = Cardinality(ExistedBefore)
       /\ probe.result.restored_files = Cardinality(probe.backup \ ExistedBefore)

\* C20: at every moment of a restore the target path of every collected
\* file is as it was before the restore or holds the whole backup content,
\* and a file whose copy to the temporary sibling has failed is returned as
\* an error with the temporary sibling removed.
C20_RestoreAtomic ==
    probe.op = "restore"
    => /\ \A p \in probe.backup :
             IF p \in DOMAIN probe.target
             THEN \/ probe.target[p] = BackupContent(p)
                  \/ p \in DOMAIN probe.before /\ probe.target[p] = probe.before[p]
             ELSE p \notin DOMAIN probe.before
       /\ \A p \in DOMAIN probe.futures :
             (probe.futures[p].state = "done" /\ probe.futures[p].action = "ERROR")
             => /\ ~probe.futures[p].success
                /\ with_suffix_tmp(p) \notin DOMAIN probe.target

(***************************************************************************)
(* Target resolution of RestoreEngine.restore: SpecRestoreTarget           *)
(***************************************************************************)
\* What the manifest path of the backup folder can hold: nothing, an
\* unreadable file, garbage, a manifest with and without a source, the
\* empty object, and documents that are JSON and no manifest.
RestoreManifestFiles ==
    {Absent, Unreadable, NotJson,
     JsonText(to_dict(EarlierManifest)),
     JsonText(to_dict([EarlierManifest EXCEPT !.source = ""])),
     JsonText(JObject(<<>>))}
    \cup {JsonText(data) : data \in Malformed(to_dict(EarlierManifest))}

\* A mutant of resolve_target: without a manifest source the restore goes
\* to the current directory.
resolve_target_guesses(backup_exists, target_given, target_path, file, now) ==
    IF ~backup_exists THEN [ok |-> FALSE, target_path |-> target_path]
    ELSE IF target_given THEN [ok |-> TRUE, target_path |-> target_path]
    ELSE LET r == load(file, now)
         IN IF Raised(r) THEN [ok |-> FALSE, target_path |-> target_path]
            ELSE IF ~IsNone(r.value) /\ Truthy(r.value.source)
            THEN [ok |-> TRUE, target_path |-> r.value.source]
            ELSE [ok |-> TRUE, target_path |-> "."]

\* Steps 1 and 2 of restore: whether it goes on, and self.target_path
\* afterwards. It stops with errors = 1 when the backup folder is missing,
\* when load raises (caught by the except clause) and when no target path
\* is given and the manifest is missing or has no source.
resolve_target(backup_exists, target_given, target_path, file, now) ==
    IF ~backup_exists THEN [ok |-> FALSE, target_path |-> target_path]
    ELSE IF target_given THEN [ok |-> TRUE, target_path |-> target_path]
    ELSE LET r == load(file, now)
         IN IF Raised(r) THEN [ok |-> FALSE, target_path |-> target_path]
            ELSE IF ~IsNone(r.value) /\ Truthy(r.value.source)
            THEN [ok |-> TRUE, target_path |-> r.value.source]
            ELSE [ok |-> FALSE, target_path |-> target_path]

\* RestoreEngine.__init__ with or without a target path, on a backup
\* folder that may be missing; target holds the files below the path the
\* restore writes to.
InitRestoreTarget ==
    /\ src = <<>>
    /\ dst = <<>>
    /\ tmpfile = Absent
    /\ config = BackupConfig(TRUE, FALSE)
    /\ pc = "idle"
    /\ result = BackupResult
    /\ manifest = None
    /\ source_files = <<>>
    /\ new_files = <<>>
    /\ modified_files = <<>>
    /\ futures = <<>>
    /\ backed_up_files = <<>>
    /\ run = NoCall
    /\ returned = NoRun
    /\ prev = NoRun
    /\ runs = 0
    /\ edits = 0
    /\ mfile \in RestoreManifestFiles
    /\ \E backup_exists \in BOOLEAN, target_given \in BOOLEAN,
          backup \in SUBSET {"a.txt", "b.txt"}, present \in SUBSET {"a.txt", "b.txt"} :
          /\ ~backup_exists => (mfile = Absent /\ backup = {})
          /\ probe = [op |-> "restore", pc |-> "idle", backup |-> backup,
                      before |-> [p \in present |-> OldContent(p)],
                      target |-> [p \in present |-> OldContent(p)],
                      overwrite |-> FALSE, dry_run |-> FALSE,
                      futures |-> [p \in {} |-> Submitted],
                      result |-> RestoreResult,
                      backup_exists |-> backup_exists,
                      target_given |-> target_given,
                      target_path |-> IF target_given THEN "/restore/here" ELSE ""]

\* restore(overwrite, dry_run) from the validation of the backup folder to
\* the submission of the tasks.
CallRestoreUnresolved ==
    /\ probe.pc = "idle"
    /\ \E overwrite \in BOOLEAN, dry_run \in BOOLEAN :
          LET r == resolve_target(probe.backup_exists, probe.target_given,
                                  probe.target_path, mfile, 1)
              files_to_restore == IF r.ok THEN collect_files(probe.backup) ELSE {}
          IN  probe' = [probe EXCEPT
                  !.overwrite = overwrite,
                  !.dry_run = dry_run,
                  !.target_path = r.target_path,
                  !.pc = IF files_to_restore = {} THEN "returned" ELSE "restoring",
                  !.futures = [p \in files_to_restore |-> Submitted],
                  !.result = [RestoreResult EXCEPT
                                 !.errors = IF r.ok THEN 0 ELSE 1,
                                 !.total_files = Cardinality(files_to_restore),
                                 !.total_size = SumOver([p \in files_to_restore |-> st_size(p)],
                                                        files_to_restore),
                                 !.end_time = IF files_to_restore = {} THEN 1 ELSE 0]]
    /\ UNCHANGED engineVars

NextRestoreTarget ==
    \/ CallRestoreUnresolved
    \/ \E p \in RestorePaths :
          \/ ResolveConflict(p)
          \/ OpenTemp(p)
          \/ CopyToTemp(p)
          \/ CopyFails(p)
          \/ ReplaceTarget(p)
          \/ CollectRestored(p)
    \/ ReturnRestore

SpecRestoreTarget == InitRestoreTarget /\ [][NextRestoreTarget]_vars

\* The source path recorded in the manifest file, "" when load gives no
\* manifest.
RecordedSource(file) ==
    LET r == load(file, 1)
    IN IF Raised(r) THEN "" ELSE IF IsNone(r.value) THEN "" ELSE r.value.source

\* C21: a restore without a target path on a backup folder whose manifest
\* cannot be read or records no source returns with errors >= 1 and
\* total_files = 0 and has written nothing; when the manifest records a
\* source, that path is the target path of the restore.
C21_NoTargetIsHardError ==
    (probe.op = "restore" /\ probe.pc # "idle" /\ ~probe.target_given)
    => IF probe.backup_exists /\ Truthy(RecordedSource(mfile))
       THEN probe.target_path = RecordedSource(mfile)
       ELSE /\ probe.pc = "returned"
            /\ probe.result.errors >= 1
            /\ probe.result.total_files = 0
            /\ probe.futures = [p \in {} |-> Submitted]
            /\ probe.target = probe.before

\* A restore without a target path has found files in the backup folder
\* and a manifest file that is no JSON: it has returned an error.
C21_Witness ==
    /\ probe.op = "restore"
    /\ probe.pc = "returned"
    /\ ~probe.target_given
    /\ mfile = NotJson
    /\ probe.backup # {}
    /\ probe.result.errors = 1
    /\ probe.target = probe.before

(***************************************************************************)
(* run_backup on a damaged manifest file: SpecCorrupt                      *)
(***************************************************************************)
\* Whether load gives a manifest from the file, and the backup_count it
\* gives (0 when it gives none).
Readable(file) ==
    LET r == load(file, 0) IN ~Raised(r) /\ ~IsNone(r.value)

StoredCount(file) == IF Readable(file) THEN load(file, 0).value.backup_count ELSE 0

Max(a, b) == IF a >= b THEN a ELSE b

\* The engine with a manifest and log_to_file off, on a destination
\* without a backup; highest is the largest backup_count a manifest file
\* held when it was damaged.
InitCorrupt ==
    /\ EngineInit
    /\ src \in InitialTrees
    /\ config = [BackupConfig(TRUE, FALSE) EXCEPT !.log_to_file = FALSE]
    /\ probe = [op |-> "damage", highest |-> 0]

\* Between two runs the manifest file a run has saved is damaged from
\* outside: made unreadable, overwritten by garbage or cut short, or
\* replaced by a JSON document that is no manifest.
CorruptManifest ==
    /\ pc = "idle"
    /\ Readable(mfile)
    /\ mfile = JsonText(to_dict(load(mfile, 0).value))
    /\ \E file \in {Unreadable, NotJson, JsonText(JObject(<<>>))}
                   \cup {JsonText(d) : d \in Malformed(mfile.data)} :
          mfile' = file
    /\ probe' = [probe EXCEPT !.highest = Max(@, StoredCount(mfile))]
    /\ UNCHANGED <<src, dst, tmpfile, config, pc, result, manifest, source_files,
                   new_files, modified_files, futures, backed_up_files, run,
                   returned, prev, runs, edits>>

NextCorrupt ==
    \/ CorruptManifest
    \/ RunBackup
    \/ InitComponents
    \/ ScanSource
    \/ DetectChanges
    \/ \E action \in {"COPIED", "UPDATED"} : SubmitBatch(action)
    \/ \E q \in Paths : Worker(q)
    \/ \E q \in Paths : Collect(q)
    \/ \E action \in {"COPIED", "UPDATED"} : FinishBatch(action)
    \/ UpdateManifest
    \/ Finally
    \/ Return

SpecCorrupt == InitCorrupt /\ [][NextCorrupt]_vars

\* The step of run_backup that updates the manifest.
UpdateStep ==
    pc = "update" /\ pc' = "finally" /\ config.use_manifest /\ ~IsNone(manifest)

\* C22 as stated: no step of run_backup that writes the manifest file
\* stores a backup_count lower than
\* one stored before on the backup target, whether or not the manifest file
\* was damaged since, and the update step adds exactly 1 to backup_count.
C22_CountNeverDecreases ==
    [][/\ (mfile' # mfile /\ pc # "idle" /\ Readable(mfile'))
          => StoredCount(mfile') >= Max(probe.highest, StoredCount(mfile))
       /\ UpdateStep => manifest'.backup_count = manifest.backup_count + 1]_vars

\* C22 amended: while the manifest file stays readable no step of
\* run_backup lowers the backup_count stored in it, the update step adds
\* exactly 1 to the backup_count of the manifest loaded or created, a
\* successful save stores that count, and a run that finds the manifest
\* file unreadable or absent stores the count 1.
C22_CountMonotoneWhileReadable ==
    [][/\ (pc # "idle" /\ Readable(mfile) /\ Readable(mfile'))
          => StoredCount(mfile') >= StoredCount(mfile)
       /\ UpdateStep
          => /\ manifest'.backup_count = manifest.backup_count + 1
             /\ run'.saved => StoredCount(mfile') = manifest'.backup_count
             /\ (run'.saved /\ ~Readable(mfile)) => StoredCount(mfile') = 1]_vars

\* Two runs have stored the count 2, the manifest file was damaged, and the
\* third run has stored the count 1.
C22_Witness ==
    /\ pc = "finally"
    /\ run.saved
    /\ probe.op = "damage"
    /\ probe.highest = 2
    /\ StoredCount(mfile) = 1

(***************************************************************************)
(* Claims on the manifest update of run_backup                             *)
(***************************************************************************)
\* Of the last two calls of run_backup the first could not save its
\* manifest and the second ran on the same source tree.
RunAfterFailedSave ==
    /\ TwoRuns
    /\ config.use_manifest
    /\ ~prev.saved
    /\ returned.tree = prev.tree

\* C23: the step of run_backup in which the save of the manifest fails
\* leaves errors, the copy counters, the files under the backup target and
\* the manifest file as they are, and the next run over the same source
\* classifies the files that run has copied as new or modified again.
C23_SaveFailureIsWarning ==
    [][/\ (UpdateStep /\ ~run'.saved)
          => /\ result'.errors = result.errors
             /\ result'.copied_files = result.copied_files
             /\ result'.updated_files = result.updated_files
             /\ result'.copied_size = result.copied_size
             /\ result'.file_actions = result.file_actions
             /\ dst' = dst
             /\ mfile' = mfile
       /\ RunAfterFailedSave' => prev'.succeeded \subseteq (returned'.new \cup returned'.modified)]_vars

\* A run has copied one file and could not save its manifest; the next
\* run over the same source has classified the file as new and copied it
\* again.
C23_Witness ==
    /\ RunAfterFailedSave
    /\ prev.errors = 0
    /\ prev.copied_files = 1
    /\ Cardinality(prev.succeeded) = 1
    /\ prev.succeeded \subseteq returned.new
    /\ returned.copied_files = 1

\* The manifest file exists and is not a document save has written.
Damaged(file) ==
    /\ exists(file)
    /\ Readable(file) => file # JsonText(to_dict(load(file, 0).value))

\* C24: a run_backup that finds the manifest file damaged does not reach
\* the except clause and counts no error for it, classifies every scanned
\* file as new, and its successful save leaves a valid manifest file.
C24_CorruptManifestRecovered ==
    /\ (pc \notin {"idle", "init"} /\ Damaged(mfile))
       => /\ ~run.raised
          /\ result.errors = Cardinality(FailedCopies)
          /\ pc \notin {"scan", "diff"} => PathsOf(new_files) = DOMAIN source_files
    /\ (pc = "finally" /\ run.saved) => ~Damaged(mfile)

(***************************************************************************)
(* update_from_backup on every manifest and scan: SpecUpdate               *)
(***************************************************************************)
\* The files of a scan with a path in S, in ascending order of the paths.
FilesOf(files, S) == FilesAt(files, Ascending(S))

\* update_from_backup is called on a stored manifest with some of the
\* scanned files as backed_up_files and, as deleted_paths, None or the
\* deleted paths diff reports for the scan.
InitUpdate ==
    /\ EngineInit
    /\ src = <<>>
    /\ config = BackupConfig(TRUE, FALSE)
    /\ \E scanned \in DiffScans, stored \in DiffScans, statFails \in BOOLEAN,
          with_deleted \in BOOLEAN :
          \E S \in SUBSET DOMAIN scanned :
             LET m == DiffManifest(stored)
                 files == DiffFiles(scanned)
             IN probe = [op |-> "update_from_backup",
                         manifest |-> m,
                         backed_up_files |-> FilesOf(files, S),
                         deleted_paths |-> IF with_deleted
                                           THEN diff(files, m, m).deleted_paths
                                           ELSE <<>>,
                         statFails |-> statFails,
                         called |-> FALSE,
                         out |-> m]

CallUpdate ==
    /\ ~probe.called
    /\ probe' = [probe EXCEPT
           !.called = TRUE,
           !.out = update_from_backup(probe.manifest, probe.backed_up_files,
                                      probe.deleted_paths, 2, probe.statFails)]
    /\ UNCHANGED engineVars

NextUpdate == CallUpdate

SpecUpdate == InitUpdate /\ [][NextUpdate]_vars

\* C25: after update_from_backup every file of backed_up_files has the
\* entry made from it, no path of deleted_paths has an entry, backup_count
\* is one more than before, and every other entry is as it was.
C25_UpdateFrame ==
    probe.called =>
        LET m == probe.manifest
            out == probe.out
            backed_up == PathsOf(probe.backed_up_files)
            deleted == Range(probe.deleted_paths)
        IN /\ \A i \in 1..Len(probe.backed_up_files) :
                LET file_info == probe.backed_up_files[i]
                IN /\ file_info.relative_path \in DOMAIN out.entries
                   /\ out.entries[file_info.relative_path]
                          = from_file_info(file_info, 2, probe.statFails)
           /\ \A p \in deleted : p \notin DOMAIN out.entries
           /\ out.backup_count = m.backup_count + 1
           /\ DOMAIN out.entries = (DOMAIN m.entries \cup backed_up) \ deleted
           /\ \A p \in DOMAIN m.entries \ (backed_up \cup deleted) :
                 out.entries[p] = m.entries[p]

\* One file was backed up over its old entry, one tracked path was deleted
\* from the source, and the manifest now tracks the one file.
C25_Witness ==
    /\ probe.op = "update_from_backup"
    /\ probe.called
    /\ Len(probe.backed_up_files) = 1
    /\ Len(probe.deleted_paths) = 1
    /\ PathsOf(probe.backed_up_files) \subseteq DOMAIN probe.manifest.entries
    /\ DOMAIN probe.out.entries = PathsOf(probe.backed_up_files)
    /\ probe.out.entries # [p \in DOMAIN probe.out.entries |-> probe.manifest.entries[p]]


(***************************************************************************)
(* ExclusionFilter and FileScanner on a directory tree: SpecScan           *)
(***************************************************************************)
\* A name is the sequence of its characters, a path the sequence of its
\* names.  The names of the tree the scanner walks:
A_TXT == <<"a", ".", "t", "x", "t">>
X_LOG == <<"x", ".", "L", "O", "G">>
DOCS == <<"d", "o", "c", "s">>
B_TXT == <<"b", ".", "t", "x", "t">>
P_EGG_INFO == <<"p", ".", "e", "g", "g", "-", "i", "n", "f", "o">>
DATA_TMP == <<"d", "a", "t", "a", ".", "t", "m", "p">>
BUILD == <<"B", "u", "i", "l", "d">>
MYENV == <<"m", "y", "e", "n", "v">>
LINK == <<"l", "i", "n", "k">>
HOME == <<"h", "o", "m", "e">>

\* The marker names of _is_virtual_env.
PYVENV_CFG == <<"p", "y", "v", "e", "n", "v", ".", "c", "f", "g">>
SCRIPTS == <<"S", "c", "r", "i", "p", "t", "s">>
BIN == <<"b", "i", "n">>
LIB == <<"l", "i", "b">>
ACTIVATE == <<"a", "c", "t", "i", "v", "a", "t", "e">>
PYTHON == <<"p", "y", "t", "h", "o", "n">>
PYTHON_EXE == <<"p", "y", "t", "h", "o", "n", ".", "e", "x", "e">>
PYTHON3 == <<"p", "y", "t", "h", "o", "n", "3">>

\* str.lower, on the letters of ASCII.
UpperCase ==
    <<"A", "B", "C", "D", "E", "F", "G", "H", "I", "J", "K", "L", "M",
      "N", "O", "P", "Q", "R", "S", "T", "U", "V", "W", "X", "Y", "Z">>
LowerCase ==
    <<"a", "b", "c", "d", "e", "f", "g", "h", "i", "j", "k", "l", "m",
      "n", "o", "p", "q", "r", "s", "t", "u", "v", "w", "x", "y", "z">>

lower_char(c) ==
    IF \E i \in 1..Len(UpperCase) : UpperCase[i] = c
    THEN LowerCase[CHOOSE i \in 1..Len(UpperCase) : UpperCase[i] = c]
    ELSE c

lower(s) == [i \in 1..Len(s) |-> lower_char(s[i])]

\* str.rfind, counting from 1; 0 when the character does not occur.
rfind(s, c) ==
    IF \E i \in 1..Len(s) : s[i] = c
    THEN CHOOSE i \in 1..Len(s) : s[i] = c /\ \A j \in (i + 1)..Len(s) : s[j] # c
    ELSE 0

\* PurePath.suffix
suffix(name) ==
    LET i == rfind(name, ".")
    IN IF 1 < i /\ i < Len(name) THEN SubSeq(name, i, Len(name)) ELSE <<>>

\* PurePath.name
name_of(path) == path[Len(path)]

\* ExclusionFilter.__init__: the regular expression a glob is turned into,
\* one piece of it for each character of the glob.
glob_to_regex(excl) ==
    [i \in 1..Len(excl) |->
        IF excl[i] = "." THEN "\\."
        ELSE IF excl[i] = "*" THEN ".*"
        ELSE IF excl[i] = "?" THEN "."
        ELSE excl[i]]

\* re.Pattern.match of "^regex$" compiled with re.IGNORECASE.
RECURSIVE regex_match(_, _)
regex_match(regex, s) ==
    IF regex = <<>> THEN s = <<>>
    ELSE LET piece == Head(regex)
             rest == Tail(regex)
         IN IF piece = ".*"
            THEN \E k \in 0..Len(s) : regex_match(rest, SubSeq(s, k + 1, Len(s)))
            ELSE IF s = <<>> THEN FALSE
            ELSE IF piece = "." THEN regex_match(rest, Tail(s))
            ELSE IF piece = "\\." THEN Head(s) = "." /\ regex_match(rest, Tail(s))
            ELSE lower_char(piece) = lower_char(Head(s)) /\ regex_match(rest, Tail(s))

is_glob(excl) == \E i \in 1..Len(excl) : excl[i] \in {"*", "?"}

\* ExclusionFilter.__init__.  order is the order in which the loop meets
\* the members of the set exclusions.
ExclusionFilter(exclusions, excluded_extensions, order) ==
    [exact_matches |-> {lower(excl) : excl \in {e \in exclusions : ~is_glob(e)}},
     patterns |-> LET globs == SelectSeq(order, is_glob)
                  IN [i \in 1..Len(globs) |-> glob_to_regex(globs[i])],
     excluded_extensions |-> {lower(ext) : ext \in excluded_extensions}]

\* The nodes of a file system: a directory that can be listed and searched,
\* one that can be searched but not listed, one that can be listed but not
\* searched; a regular file and what stat does on it; a symbolic link to a
\* regular file.
Dir(access) == [kind |-> "dir", access |-> access]
RegularFile(stat) == [kind |-> "file", stat |-> stat, size |-> 1, mtime |-> 1, digest |-> "h1"]
SymLink == [kind |-> "symlink"]
Accesses == {"ok", "no read", "no search"}
Stats == {"ok", "PermissionError", "OSError"}

\* os.stat(path) is refused: a directory above path cannot be searched.
stat_denied(fs, path) ==
    \E k \in 1..(Len(path) - 1) :
        /\ SubSeq(path, 1, k) \in DOMAIN fs
        /\ fs[SubSeq(path, 1, k)].kind = "dir"
        /\ fs[SubSeq(path, 1, k)].access = "no search"

PermissionError == [raised |-> "PermissionError"]
OSError == [raised |-> "OSError"]

\* Path.exists and Path.is_dir: the value, or the PermissionError of stat.
path_exists(fs, path) ==
    IF stat_denied(fs, path) THEN PermissionError ELSE [value |-> path \in DOMAIN fs]

is_dir(fs, path) ==
    IF stat_denied(fs, path) THEN PermissionError
    ELSE [value |-> path \in DOMAIN fs /\ fs[path].kind = "dir"]

venv_indicators(path) ==
    <<path \o <<PYVENV_CFG>>,
      path \o <<SCRIPTS, ACTIVATE>>,
      path \o <<BIN, ACTIVATE>>,
      path \o <<SCRIPTS, PYTHON_EXE>>,
      path \o <<BIN, PYTHON>>,
      path \o <<LIB, PYTHON3>>>>

\* ExclusionFilter._is_virtual_env
is_virtual_env(fs, path) ==
    IF Raised(is_dir(fs, path)) THEN PermissionError
    ELSE IF ~is_dir(fs, path).value THEN [value |-> FALSE]
    ELSE IF \E i \in 1..6 : Raised(path_exists(fs, venv_indicators(path)[i])) THEN PermissionError
    ELSE [value |-> \E i \in 1..6 : path_exists(fs, venv_indicators(path)[i]).value]

Excluded(rule, detail) == [excluded |-> TRUE, reason |-> <<rule, detail>>]
NotExcluded == [excluded |-> FALSE, reason |-> <<"", <<>>>>]

\* re.Pattern.pattern
pattern_text(regex) == <<"^">> \o regex \o <<"$">>

\* ExclusionFilter.should_exclude
should_exclude(self, fs, path) ==
    LET name == lower(name_of(path))
        matching == {i \in 1..Len(self.patterns) : regex_match(self.patterns[i], name)}
    IN IF name \in self.exact_matches THEN Excluded("Exact match", name)
       ELSE IF lower(suffix(name_of(path))) \in self.excluded_extensions
            THEN Excluded("Excluded extension", suffix(name_of(path)))
       ELSE IF matching # {}
            THEN Excluded("Pattern match",
                          pattern_text(self.patterns[CHOOSE i \in matching :
                                                        \A j \in matching : i <= j]))
       ELSE IF Raised(is_virtual_env(fs, path)) THEN PermissionError
       ELSE IF is_virtual_env(fs, path).value THEN Excluded("Virtual environment detected", <<>>)
       ELSE NotExcluded

\* FileScanner.__init__
FileScanner(exclusion_filter, use_hash, min_size_for_hash) ==
    [filter |-> exclusion_filter,
     use_hash_verification |-> use_hash,
     min_file_size_for_hash |-> min_size_for_hash]

\* What scan has gathered so far: the dictionary files, _scan_count,
\* _excluded_count, the warnings and the errors logged.
NoScan ==
    [files |-> <<>>, scan_count |-> 0, excluded_count |-> 0, warnings |-> 0, errors |-> 0]

\* The entries os.scandir(current_path) yields.
scandir(fs, current_path) ==
    {q \in DOMAIN fs : /\ Len(q) = Len(current_path) + 1
                       /\ SubSeq(q, 1, Len(current_path)) = current_path}

\* PurePath.relative_to
relative_to(path, base_path) == SubSeq(path, Len(base_path) + 1, Len(path))

\* files[relative_path] = file_info
put(files, key, value) ==
    [k \in DOMAIN files \cup {key} |-> IF k = key THEN value ELSE files[k]]

RECURSIVE scan_recursive(_, _, _, _, _)
RECURSIVE scan_entries(_, _, _, _, _)

\* The body of the loop of _scan_recursive that descends into every
\* directory, excluded or not
scan_entry_descends(self, fs, base_path, path, acc) ==
    LET excl == should_exclude(self.filter, fs, path)
        excluded == IF Raised(excl) \/ excl.excluded
                    THEN [acc EXCEPT !.excluded_count = @ + 1]
                    ELSE acc
    IN IF Raised(excl) /\ fs[path].kind # "dir" THEN excluded
       ELSE IF ~Raised(excl) /\ excl.excluded /\ fs[path].kind # "dir" THEN excluded
       ELSE IF fs[path].kind = "dir" THEN scan_recursive(self, fs, base_path, path, excluded)
       ELSE IF fs[path].kind = "file"
            THEN LET counted == [acc EXCEPT !.scan_count = @ + 1]
                     relative_path == relative_to(path, base_path)
                 IN IF fs[path].stat = "PermissionError"
                    THEN [counted EXCEPT !.excluded_count = @ + 1]
                    ELSE IF fs[path].stat = "OSError"
                    THEN [counted EXCEPT !.warnings = @ + 1]
                    ELSE [counted EXCEPT !.files =
                             put(@, relative_path,
                                 FileInfo(relative_path, fs[path].size, fs[path].mtime,
                                          file_hash_of(fs[path], self)))]
       ELSE acc

\* The body of the loop of _scan_recursive, for the entry at path.
scan_entry(self, fs, base_path, path, acc) ==
    LET excl == should_exclude(self.filter, fs, path)
    IN IF Raised(excl) THEN [acc EXCEPT !.excluded_count = @ + 1]
       ELSE IF excl.excluded THEN [acc EXCEPT !.excluded_count = @ + 1]
       ELSE IF fs[path].kind = "dir" THEN scan_recursive(self, fs, base_path, path, acc)
       ELSE IF fs[path].kind = "file"
            THEN LET counted == [acc EXCEPT !.scan_count = @ + 1]
                     relative_path == relative_to(path, base_path)
                 IN IF fs[path].stat = "PermissionError"
                    THEN [counted EXCEPT !.excluded_count = @ + 1]
                    ELSE IF fs[path].stat = "OSError"
                    THEN [counted EXCEPT !.warnings = @ + 1]
                    ELSE [counted EXCEPT !.files =
                             put(@, relative_path,
                                 FileInfo(relative_path, fs[path].size, fs[path].mtime,
                                          file_hash_of(fs[path], self)))]
       ELSE acc

\* The loop of _scan_recursive over the entries not yet met.
scan_entries(self, fs, base_path, entries, acc) ==
    IF entries = {} THEN acc
    ELSE LET entry == CHOOSE e \in entries : TRUE
         IN scan_entries(self, fs, base_path, entries \ {entry},
                         scan_entry(self, fs, base_path, entry, acc))

\* FileScanner._scan_recursive
scan_recursive(self, fs, base_path, current_path, acc) ==
    IF fs[current_path].access = "no read"
    THEN [acc EXCEPT !.warnings = @ + 1]
    ELSE scan_entries(self, fs, base_path, scandir(fs, current_path), acc)

\* FileScanner.scan on a directory tree.
scan_base_path(self, fs, base_path) ==
    scan_recursive(self, fs, base_path, base_path, NoScan)

\* The trees, filters and scanners of the specification.
ScanBase == <<HOME>>

ScanTree(base_access, docs_access, env_access, stat, with_cfg) ==
    LET always == (<<HOME>> :> Dir(base_access))
                  @@ (<<HOME, A_TXT>> :> RegularFile(stat))
                  @@ (<<HOME, X_LOG>> :> RegularFile("ok"))
                  @@ (<<HOME, LINK>> :> SymLink)
                  @@ (<<HOME, DOCS>> :> Dir(docs_access))
                  @@ (<<HOME, DOCS, B_TXT>> :> RegularFile("ok"))
                  @@ (<<HOME, DOCS, P_EGG_INFO>> :> Dir("ok"))
                  @@ (<<HOME, DOCS, P_EGG_INFO, A_TXT>> :> RegularFile("ok"))
                  @@ (<<HOME, DATA_TMP>> :> Dir("ok"))
                  @@ (<<HOME, DATA_TMP, B_TXT>> :> RegularFile("ok"))
                  @@ (<<HOME, BUILD>> :> Dir("ok"))
                  @@ (<<HOME, BUILD, A_TXT>> :> RegularFile("ok"))
                  @@ (<<HOME, MYENV>> :> Dir(env_access))
                  @@ (<<HOME, MYENV, B_TXT>> :> RegularFile("ok"))
    IN IF with_cfg THEN always @@ (<<HOME, MYENV, PYVENV_CFG>> :> RegularFile("ok"))
       ELSE always

GLOB_EGG_INFO == <<"*", ".", "e", "g", "g", "-", "i", "n", "f", "o">>
GLOB_P == <<"p", ".", "*">>
EXACT_BUILD == <<"b", "u", "i", "l", "d">>
EXT_TMP == <<".", "T", "M", "P">>
EXT_LOG == <<".", "l", "o", "g">>

ScanExclusions == {{}, {EXACT_BUILD}, {EXACT_BUILD, GLOB_EGG_INFO, GLOB_P}}
ScanExtensions == {{}, {EXT_TMP, EXT_LOG}}

\* The orders in which a loop can meet the members of the set S.
Orders(S) ==
    {order \in [1..Cardinality(S) -> S] : \A e \in S : \E i \in DOMAIN order : order[i] = e}

InitScan ==
    /\ EngineInit
    /\ src = <<>>
    /\ config = BackupConfig(TRUE, FALSE)
    /\ \E base_access \in Accesses, docs_access \in Accesses, env_access \in Accesses,
          stat \in Stats, with_cfg \in BOOLEAN,
          exclusions \in ScanExclusions, excluded_extensions \in ScanExtensions :
          \E order \in Orders(exclusions) :
             probe = [op |-> "scan",
                      fs |-> ScanTree(base_access, docs_access, env_access, stat, with_cfg),
                      scanner |-> FileScanner(
                          ExclusionFilter(exclusions, excluded_extensions, order), FALSE, MaxSize),
                      path |-> ScanBase,
                      excl |-> NotExcluded,
                      scanned |-> FALSE,
                      out |-> NoScan]

\* should_exclude is called on a path of the tree.
CallShouldExclude(path) ==
    /\ ~probe.scanned
    /\ path # ScanBase
    /\ probe' = [probe EXCEPT
           !.path = path,
           !.excl = should_exclude(probe.scanner.filter, probe.fs, path)]
    /\ UNCHANGED engineVars

\* scan is called on the base path.
CallScan ==
    /\ ~probe.scanned
    /\ probe' = [probe EXCEPT
           !.scanned = TRUE,
           !.out = scan_base_path(probe.scanner, probe.fs, ScanBase)]
    /\ UNCHANGED engineVars

NextScan ==
    \/ \E path \in DOMAIN probe.fs : CallShouldExclude(path)
    \/ CallScan

SpecScan == InitScan /\ [][NextScan]_vars

\* The directories between the base path and path, both left out.
DirsAbove(path, base_path) ==
    {SubSeq(path, 1, k) : k \in (Len(base_path) + 1)..(Len(path) - 1)}

\* should_exclude returns (True, reason) for path; it returns (False, "").
IsExcluded(path) ==
    LET excl == should_exclude(probe.scanner.filter, probe.fs, path)
    IN ~Raised(excl) /\ excl.excluded

IsIncluded(path) ==
    should_exclude(probe.scanner.filter, probe.fs, path) = NotExcluded

\* A regular file the walk can reach: the base path and every directory
\* above the file can be listed, none of these directories and not the file
\* is excluded or refused to should_exclude, and stat succeeds.
Reachable(path) ==
    /\ probe.fs[path].kind = "file"
    /\ probe.fs[path].stat = "ok"
    /\ IsIncluded(path)
    /\ probe.fs[ScanBase].access # "no read"
    /\ \A d \in DirsAbove(path, ScanBase) :
          IsIncluded(d) /\ probe.fs[d].access # "no read"

\* C26: no file of the scan result lies under a directory that
\* should_exclude excludes, and every regular file that is not excluded and
\* is reachable through directories that are not excluded is in the result
\* under its path relative to the base path.
C26_ExcludedDirectoriesNotEntered ==
    probe.scanned =>
        /\ \A rel \in DOMAIN probe.out.files :
              /\ ScanBase \o rel \in DOMAIN probe.fs
              /\ \A d \in DirsAbove(ScanBase \o rel, ScanBase) : ~IsExcluded(d)
        /\ \A path \in DOMAIN probe.fs :
              Reachable(path) =>
                  /\ relative_to(path, ScanBase) \in DOMAIN probe.out.files
                  /\ probe.out.files[relative_to(path, ScanBase)].relative_path
                         = relative_to(path, ScanBase)

\* A scan that left out the files under three excluded directories, one for
\* each rule that applies to a directory, and returned a file of a
\* directory that is not excluded.
C26_Witness ==
    /\ probe.op = "scan"
    /\ probe.scanned
    /\ IsExcluded(<<HOME, BUILD>>)
    /\ IsExcluded(<<HOME, DOCS, P_EGG_INFO>>)
    /\ IsExcluded(<<HOME, MYENV>>)
    /\ IsIncluded(<<HOME, DATA_TMP>>)
    /\ DOMAIN probe.out.files = {<<A_TXT>>, <<X_LOG>>, <<DOCS, B_TXT>>, <<DATA_TMP, B_TXT>>}

\* An entry the walk meets: the base path can be listed, and every
\* directory above the entry was entered and can be listed.
Visited(path) ==
    /\ path # ScanBase
    /\ probe.fs[ScanBase].access # "no read"
    /\ \A d \in DirsAbove(path, ScanBase) :
          IsIncluded(d) /\ probe.fs[d].access # "no read"

\* A PermissionError is raised while the scanner handles the entry: in
\* should_exclude, in os.scandir of the directory, or in stat of the file.
Denied(path) ==
    \/ Raised(should_exclude(probe.scanner.filter, probe.fs, path))
    \/ /\ IsIncluded(path)
       /\ probe.fs[path].kind = "dir"
       /\ probe.fs[path].access = "no read"
    \/ /\ IsIncluded(path)
       /\ probe.fs[path].kind = "file"
       /\ probe.fs[path].stat = "PermissionError"

\* C27: a permission error does not abort scan: the entry or directory it
\* is raised for is skipped and counted in _excluded_count, and every other
\* file that is accessible and not excluded is returned.
C27_PermissionErrorsCounted ==
    probe.scanned =>
        /\ probe.out.errors = 0
        /\ probe.out.excluded_count =
               Cardinality({path \in DOMAIN probe.fs :
                               Visited(path) /\ (IsExcluded(path) \/ Denied(path))})
        /\ \A path \in DOMAIN probe.fs :
              (Visited(path) /\ Denied(path)) =>
                  \A rel \in DOMAIN probe.out.files :
                     SubSeq(ScanBase \o rel, 1, Len(path)) # path
        /\ {ScanBase \o rel : rel \in DOMAIN probe.out.files}
               = {path \in DOMAIN probe.fs : Reachable(path)}

\* C28: should_exclude returns (True, reason) with the reason of the first
\* rule that matches, in the order exact name, extension (for files, not
\* for directories), glob pattern, virtual-environment structure, with
\* names compared without regard to case, and (False, "") when no rule
\* matches; a second call on the same path and file system returns the same.
C28_FirstMatchingRuleWins ==
    probe.path # ScanBase =>
        LET self == probe.scanner.filter
            fs == probe.fs
            path == probe.path
            name == lower(name_of(path))
            directory == fs[path].kind = "dir"
            exact == name \in self.exact_matches
            extension == ~directory /\ lower(suffix(name_of(path))) \in self.excluded_extensions
            matching == {i \in 1..Len(self.patterns) : regex_match(self.patterns[i], name)}
            venv == directory /\ \E i \in 1..6 : venv_indicators(path)[i] \in DOMAIN fs
        IN /\ probe.excl = should_exclude(self, fs, path)
           /\ IF exact THEN probe.excl = Excluded("Exact match", name)
              ELSE IF extension
                   THEN probe.excl = Excluded("Excluded extension", suffix(name_of(path)))
              ELSE IF matching # {}
                   THEN \E i \in matching :
                           probe.excl = Excluded("Pattern match", pattern_text(self.patterns[i]))
              ELSE IF venv THEN probe.excl = Excluded("Virtual environment detected", <<>>)
              ELSE probe.excl = NotExcluded

(***************************************************************************)
(* ManifestManager.verify on every manifest and backup: SpecVerify         *)
(***************************************************************************)
\* What lies at backup_target / relative_path: nothing when the path is not
\* in the domain of the backup, else a file with its size and mtime, a path
\* that exists and whose stat raises OSError, or a path under a directory
\* that cannot be searched, for which exists raises PermissionError.
BackupFile(size, mtime) == [state |-> "file", size |-> size, mtime |-> mtime]
StatRaises == [state |-> "stat raises"]
ExistsRaises == [state |-> "exists raises"]

Missing(p) == [kind |-> "Missing", relative_path |-> p]
SizeMismatch(p, expected, got) ==
    [kind |-> "Size mismatch", relative_path |-> p, expected |-> expected, got |-> got]
ErrorReading(p) == [kind |-> "Error reading", relative_path |-> p]

\* The loop of verify that also compares the mtime
RECURSIVE verify_loop_mtime(_, _, _, _)
verify_loop_mtime(order, m, backup, errors) ==
    IF order = <<>> THEN [value |-> errors]
    ELSE LET entry == m.entries[Head(order)]
             p == entry.relative_path
         IN IF p \in DOMAIN backup /\ backup[p] = ExistsRaises THEN PermissionError
            ELSE IF p \notin DOMAIN backup
                 THEN verify_loop_mtime(Tail(order), m, backup, Append(errors, Missing(p)))
            ELSE IF backup[p] = StatRaises
                 THEN verify_loop_mtime(Tail(order), m, backup, Append(errors, ErrorReading(p)))
            ELSE IF backup[p].size # entry.size \/ backup[p].mtime # entry.mtime
                 THEN verify_loop_mtime(Tail(order), m, backup,
                          Append(errors, SizeMismatch(p, entry.size, backup[p].size)))
            ELSE verify_loop_mtime(Tail(order), m, backup, errors)

\* The loop of verify over manifest.iter_entries().
RECURSIVE verify_loop(_, _, _, _)
verify_loop(order, m, backup, errors) ==
    IF order = <<>> THEN [value |-> errors]
    ELSE LET entry == m.entries[Head(order)]
             p == entry.relative_path
         IN IF p \in DOMAIN backup /\ backup[p] = ExistsRaises THEN PermissionError
            ELSE IF p \notin DOMAIN backup
                 THEN verify_loop(Tail(order), m, backup, Append(errors, Missing(p)))
            ELSE IF backup[p] = StatRaises
                 THEN verify_loop(Tail(order), m, backup, Append(errors, ErrorReading(p)))
            ELSE IF backup[p].size # entry.size
                 THEN verify_loop(Tail(order), m, backup,
                          Append(errors, SizeMismatch(p, entry.size, backup[p].size)))
            ELSE verify_loop(Tail(order), m, backup, errors)

\* ManifestManager.verify: the list of errors, or the exception raised.
verify(m, backup) == verify_loop(Ascending(DOMAIN m.entries), m, backup, <<>>)

\* The manifests and backups of the specification.
VerifyEntries ==
    UNION {[S -> {1, MaxSize} \X {1, MaxMtime} \X {"", "h1"}] : S \in SUBSET Paths}

VerifyManifest(e) ==
    Manifest(1, "JSON", 1, 1, "/home/user/Documents", "", 1,
             [p \in DOMAIN e |->
                 ManifestEntry(p, e[p][3], e[p][1], e[p][2], DefaultPermissions, 1)])

VerifyBackups ==
    UNION {[S -> {BackupFile(size, mtime) : size \in {1, MaxSize}, mtime \in {1, MaxMtime}}
                 \cup {StatRaises, ExistsRaises}] : S \in SUBSET Paths}

InitVerify ==
    /\ EngineInit
    /\ src = <<>>
    /\ config = BackupConfig(TRUE, FALSE)
    /\ \E e \in VerifyEntries, backup \in VerifyBackups :
          probe = [op |-> "verify",
                   manifest |-> VerifyManifest(e),
                   backup |-> backup,
                   called |-> FALSE,
                   out |-> [value |-> <<>>]]

CallVerify ==
    /\ ~probe.called
    /\ probe' = [probe EXCEPT
           !.called = TRUE,
           !.out = verify(probe.manifest, probe.backup)]
    /\ UNCHANGED engineVars

NextVerify == CallVerify

SpecVerify == InitVerify /\ [][NextVerify]_vars

\* The entry of path p has a file of its size in the backup.
Verified(p) ==
    /\ p \in DOMAIN probe.backup
    /\ probe.backup[p].state = "file"
    /\ probe.backup[p].size = probe.manifest.entries[p].size

\* The manifest and the backup with every mtime and hash replaced.
WithoutMtimeAndHash(m) ==
    [m EXCEPT !.entries = [p \in DOMAIN m.entries |->
                              [m.entries[p] EXCEPT !.mtime = 0, !.file_hash = ""]]]

WithoutMtime(backup) ==
    [p \in DOMAIN backup |->
        IF backup[p].state = "file" THEN [backup[p] EXCEPT !.mtime = 0] ELSE backup[p]]

\* C29: verify returns the empty list exactly when every entry has a file
\* of the entry's size in the backup, otherwise one Missing or Size mismatch
\* error for each entry that has not, and mtime and hash do not matter.
C29_VerifyMissingOrSizeMismatch ==
    probe.called =>
        /\ ~Raised(probe.out)
        /\ LET errors == probe.out.value
               offending == {p \in DOMAIN probe.manifest.entries : ~Verified(p)}
           IN /\ (errors = <<>>) <=> (offending = {})
              /\ Len(errors) = Cardinality(offending)
              /\ \A p \in offending :
                    \E i \in 1..Len(errors) :
                       /\ errors[i].relative_path = p
                       /\ errors[i].kind \in {"Missing", "Size mismatch"}
        /\ probe.out = verify(WithoutMtimeAndHash(probe.manifest), WithoutMtime(probe.backup))

\* C29 as the code has it: verify raises exactly when exists raises for the
\* path of some entry; otherwise it returns the empty list exactly when
\* every entry has a file of the entry's size in the backup, and one error
\* for each entry that has not: Missing when nothing is at the path, Error
\* reading when stat raises, Size mismatch with the two sizes otherwise;
\* mtime and hash do not matter.
C29_VerifyOneErrorPerEntry ==
    probe.called =>
        LET entries == probe.manifest.entries
            offending == {p \in DOMAIN entries : ~Verified(p)}
        IN /\ Raised(probe.out) <=>
                 \E p \in DOMAIN entries \cap DOMAIN probe.backup :
                    probe.backup[p] = ExistsRaises
           /\ ~Raised(probe.out) =>
                 LET errors == probe.out.value
                 IN /\ (errors = <<>>) <=> (offending = {})
                    /\ Len(errors) = Cardinality(offending)
                    /\ \A p \in offending :
                          \E i \in 1..Len(errors) :
                             errors[i] = IF p \notin DOMAIN probe.backup THEN Missing(p)
                                         ELSE IF probe.backup[p] = StatRaises
                                              THEN ErrorReading(p)
                                         ELSE SizeMismatch(p, entries[p].size,
                                                           probe.backup[p].size)
           /\ probe.out = verify(WithoutMtimeAndHash(probe.manifest),
                                 WithoutMtime(probe.backup))

\* A manifest of two entries with a hash and an mtime other than the
\* file's: one file is missing, one has another size.
C29_Witness ==
    /\ probe.op = "verify"
    /\ probe.called
    /\ probe.out = [value |-> <<Missing(1), SizeMismatch(2, 1, MaxSize)>>]
    /\ probe.manifest.entries[2].file_hash = "h1"
    /\ probe.manifest.entries[2].mtime # probe.backup[2].mtime

(***************************************************************************)
(* The phases of run_backup                                                *)
(***************************************************************************)
\* The phase run_backup is in at each of its positions: 0 not called,
\* 1 validating the paths and setting up the target, 2 scanning, 3 diffing,
\* 4 copying new, 5 copying modified, 6 updating the manifest, 7 writing
\* the log, 8 returning.
Phase(at) ==
    CASE at = "idle" -> 0
      [] at = "init" -> 1
      [] at = "scan" -> 2
      [] at = "diff" -> 3
      [] at \in {"copy new", "copying new"} -> 4
      [] at \in {"copy modified", "copying modified"} -> 5
      [] at = "update" -> 6
      [] at = "finally" -> 7
      [] at = "return" -> 8

\* A worker runs on the file q in the step.
WorkerRuns(q) ==
    /\ q \in DOMAIN futures
    /\ q \in DOMAIN futures'
    /\ futures[q].state = "pending"
    /\ futures'[q].state = "done"

\* C30: run_backup goes through its phases in the order validate, scan,
\* diff, copy new, copy modified, update manifest, write log, return and
\* never back; a copy worker runs only after scan and diff are done, and a
\* worker of the modified batch only after every worker of the new batch
\* has finished.
C30_PhasesInOrder ==
    [][/\ (pc' # pc) =>
             IF pc = "return" THEN pc' = "idle"
             ELSE Phase(pc') > Phase(pc) \/ (Phase(pc') = Phase(pc) /\ Phase(pc) \in {4, 5})
       /\ \A q \in Paths :
             WorkerRuns(q) =>
                 /\ Phase(pc) \in {4, 5}
                 /\ DOMAIN futures = PathsOf(new_files) \cup PathsOf(modified_files)
                 /\ futures[q].action = "COPIED" => pc = "copying new"
                 /\ futures[q].action = "UPDATED" =>
                       /\ pc = "copying modified"
                       /\ \A r \in BatchOf("COPIED") : futures[r].state = "collected"]_vars

\* A worker of the modified batch has run in a call that also copied a new
\* file, and the new batch is finished.
C30_Witness ==
    /\ pc = "copying modified"
    /\ new_files # <<>>
    /\ \E q \in BatchOf("UPDATED") : futures[q].state = "done"
    /\ \A r \in BatchOf("COPIED") : futures[r].state = "collected"

WrittenBy(p) ==
    IF p \in DOMAIN probe.futures /\ probe.futures[p].state \in {"copying", "copied"}
    THEN {with_suffix_tmp(p), p}
    ELSE {}

\* C32: during a restore batch no two workers write the same path at the
\* same time, the target of a file and its temporary sibling both counted,
\* whatever files the backup folder holds.
C32_WorkersWriteDisjointPaths ==
    probe.op = "restore" =>
        \A p \in RestorePaths, q \in RestorePaths :
            p # q => WrittenBy(p) \cap WrittenBy(q) = {}

MaxOps == 4

Directory == [kind |-> "dir", origin |-> ""]
FileBy(origin) == [kind |-> "file", origin |-> origin]
NoTree == [p \in {} |-> Directory]

HasPrefix(p, prefix) ==
    Len(p) >= Len(prefix) /\ SubSeq(p, 1, Len(prefix)) = prefix

\* Path.iterdir(): the names at the top level of the root.
iterdir(tree) == {p[1] : p \in {q \in DOMAIN tree : Len(q) = 1}}

\* Path.mkdir(parents=True, exist_ok=True)
mkdir_p(tree, path) ==
    LET dirs == {SubSeq(path, 1, k) : k \in 0..Len(path)}
    IN [p \in DOMAIN tree \cup dirs |-> IF p \in DOMAIN tree THEN tree[p] ELSE Directory]

\* A file is written at path, its parents created.
write_at(tree, path, content) ==
    LET made == mkdir_p(tree, SubSeq(path, 1, Len(path) - 1))
    IN [p \in DOMAIN made \cup {path} |-> IF p = path THEN content ELSE made[p]]

\* Where Path.rename(target) takes the path p.
renamed_path(p, from, to) ==
    IF HasPrefix(p, from) THEN to \o SubSeq(p, Len(from) + 1, Len(p)) ELSE p

\* A mutant of rename: a directory is made under the new name and what it
\* held stays under the old one.
rename_leaves_content(tree, from, to) ==
    [q \in (DOMAIN tree \ {from}) \cup {to} |-> IF q = to THEN tree[from] ELSE tree[q]]

\* Path.rename(target), when nothing is at the target.
rename(tree, from, to) ==
    [q \in {renamed_path(p, from, to) : p \in DOMAIN tree} |->
        tree[CHOOSE p \in DOMAIN tree : renamed_path(p, from, to) = q]]

\* BackupCompressor.get_archive_name
get_archive_name(device_name) == device_name \o "_20260228_093022.zip"

\* The legacy indicators at the root level of a tree.
legacy_indicators(tree) ==
    \/ <<LEGACY_MANIFEST>> \in DOMAIN tree
    \/ <<LEGACY_LOGS>> \in DOMAIN tree
    \/ \E item \in iterdir(tree) : tree[<<item>>].kind = "file"

\* _migrate_legacy_layout goes on to move the root into a device folder.
migration_needed(tree, device_name) ==
    /\ <<>> \in DOMAIN tree
    /\ legacy_indicators(tree)
    /\ <<device_name>> \notin DOMAIN tree

\* _write_log_file: below the backup target, or below the root when no
\* target was resolved.
write_log_file(tree, backup_target, origin) ==
    write_at(tree, backup_target \o <<LEGACY_LOGS, "backup.log">>, FileBy(origin))

\* Steps 3 to 9 of run_backup on the backup target: with a manifest in the
\* target that tracks a.txt the file is left as it is, else it is copied;
\* the manifest is saved.
backup_into(tree, backup_target, origin) ==
    LET made == mkdir_p(tree, backup_target)
        m == backup_target \o <<LEGACY_MANIFEST>>
        f == backup_target \o <<"a.txt">>
        copied == IF m \in DOMAIN made /\ f \in DOMAIN made
                  THEN made
                  ELSE write_at(made, f, FileBy(origin))
    IN IF m \in DOMAIN copied THEN copied ELSE write_at(copied, m, FileBy(origin))

NoLayoutRun == [device |-> "", temp_dir |-> <<>>, todo |-> {}, start |-> NoTree]

InitLayout ==
    /\ EngineInit
    /\ src = <<>>
    /\ config = BackupConfig(TRUE, FALSE)
    /\ probe = [op |-> "layout", pc |-> "idle", tree |-> NoTree, ops |-> 0, now |-> 1,
                run |-> NoLayoutRun,
                backed |-> {}, archived |-> {},
                interrupted |-> [d \in {} |-> NoTree],
                completed |-> {}]

\* run_backup without a device name: the backup target is the root.
LayoutRunFlat ==
    /\ probe.pc = "idle"
    /\ probe.ops < MaxOps
    /\ \E log_to_file \in BOOLEAN :
          LET done == backup_into(probe.tree, <<>>, "flat")
          IN probe' = [probe EXCEPT
                 !.ops = @ + 1,
                 !.tree = IF log_to_file THEN write_log_file(done, <<>>, "flat") ELSE done]
    /\ UNCHANGED engineVars

\* run_backup with a device name whose validation fails: the finally
\* clause writes the log file below the root.
LayoutRunInvalid(device_name) ==
    /\ probe.pc = "idle"
    /\ probe.ops < MaxOps
    /\ probe' = [probe EXCEPT
           !.ops = @ + 1,
           !.tree = write_log_file(@, <<>>, device_name)]
    /\ UNCHANGED engineVars

\* The compress command: the archive of a device folder is written at the
\* root level.
Compress(device_name) ==
    /\ probe.pc = "idle"
    /\ probe.ops < MaxOps
    /\ <<device_name>> \in DOMAIN probe.tree
    /\ probe' = [probe EXCEPT
           !.ops = @ + 1,
           !.tree = write_at(@, <<get_archive_name(device_name)>>, FileBy(device_name)),
           !.archived = @ \cup {device_name}]
    /\ UNCHANGED engineVars

\* run_backup with a device name up to the loop of _migrate_legacy_layout:
\* without a migration the run goes on to the backup; else the temporary
\* directory is made and the top-level entries are listed.
StartDeviceRun(device_name) ==
    /\ probe.pc = "idle"
    /\ probe.ops < MaxOps
    /\ \E now \in probe.now..MaxNow :
          LET temp_dir == <<temp_name(now)>>
          IN IF ~migration_needed(probe.tree, device_name)
             THEN probe' = [probe EXCEPT
                      !.ops = @ + 1,
                      !.now = now,
                      !.pc = "backup",
                      !.run = [NoLayoutRun EXCEPT !.device = device_name]]
             ELSE IF temp_dir \in DOMAIN probe.tree
             THEN probe' = [probe EXCEPT
                      !.ops = @ + 1,
                      !.now = now,
                      !.pc = "raised",
                      !.run = [NoLayoutRun EXCEPT !.device = device_name]]
             ELSE probe' = [probe EXCEPT
                      !.ops = @ + 1,
                      !.now = now,
                      !.pc = "moving",
                      !.tree = mkdir_p(@, temp_dir),
                      !.run = [device |-> device_name, temp_dir |-> temp_dir,
                               todo |-> iterdir(probe.tree), start |-> probe.tree]]
    /\ UNCHANGED engineVars

\* One pass of the loop: item.rename(temp_dir / item.name).
MoveItem(item) ==
    /\ probe.pc = "moving"
    /\ item \in probe.run.todo
    /\ probe' = [probe EXCEPT
           !.tree = rename(@, <<item>>, probe.run.temp_dir \o <<item>>),
           !.run.todo = @ \ {item}]
    /\ UNCHANGED engineVars

\* temp_dir.rename(device_folder)
RenameTemp ==
    /\ probe.pc = "moving"
    /\ probe.run.todo = {}
    /\ probe' = [probe EXCEPT
           !.pc = "migrated",
           !.tree = rename(@, probe.run.temp_dir, <<probe.run.device>>),
           !.completed = @ \cup {probe.run.device}]
    /\ UNCHANGED engineVars

\* A rename raises, or the process is stopped, with the migration under
\* way: the exception reaches the except clause of run_backup.
InterruptMigration ==
    /\ probe.pc = "moving"
    /\ probe' = [probe EXCEPT
           !.pc = "raised",
           !.interrupted = [d \in DOMAIN @ \cup {probe.run.device} |->
                               IF d \in DOMAIN @ THEN @[d] ELSE probe.run.start]]
    /\ UNCHANGED engineVars

\* The finally clause after an exception: with log_to_file the log file is
\* written below the root, no backup target having been resolved; a
\* process that was stopped writes nothing.
AfterRaise ==
    /\ probe.pc = "raised"
    /\ \E log_to_file \in BOOLEAN :
          probe' = [probe EXCEPT
              !.pc = "idle",
              !.run = NoLayoutRun,
              !.tree = IF log_to_file /\ <<>> \in DOMAIN @
                       THEN write_log_file(@, <<>>, probe.run.device)
                       ELSE @]
    /\ UNCHANGED engineVars

\* The rest of run_backup: the backup into the device folder.
BackupIntoDevice ==
    /\ probe.pc \in {"migrated", "backup"}
    /\ probe' = [probe EXCEPT
           !.pc = "idle",
           !.run = NoLayoutRun,
           !.tree = backup_into(@, <<probe.run.device>>, probe.run.device),
           !.backed = @ \cup {probe.run.device}]
    /\ UNCHANGED engineVars

NextLayout ==
    \/ LayoutRunFlat
    \/ \E device_name \in DeviceNames :
          \/ LayoutRunInvalid(device_name)
          \/ Compress(device_name)
          \/ StartDeviceRun(device_name)
    \/ \E item \in {p[1] : p \in {q \in DOMAIN probe.tree : Len(q) = 1}} : MoveItem(item)
    \/ RenameTemp
    \/ InterruptMigration
    \/ AfterRaise
    \/ BackupIntoDevice

SpecLayout == InitLayout /\ [][NextLayout]_vars

LayoutTypeOK == probe.op = "layout" => probe.ops <= MaxOps

\* What a device owns below the root: its folder with all it holds, and
\* its archive.
OwnedBy(tree, device_name) ==
    {p \in DOMAIN tree : HasPrefix(p, <<device_name>>) \/ p = <<get_archive_name(device_name)>>}

\* C34: while the migration of the running device is under way (the root
\* held a legacy indicator and the running device had no folder), no step
\* of it relocates what another device owns: the folder of a device that
\* has backed up, with its manifest, and that device's archive stay at
\* their paths under the root.
C34_OtherDevicesStayInPlace ==
    [][(probe.op = "layout" /\ probe.pc = "moving") =>
          \A other \in probe.backed \ {probe.run.device} :
              \A p \in OwnedBy(probe.tree, other) :
                  p \in DOMAIN probe'.tree /\ probe'.tree[p] = probe.tree[p]]_vars

\* The paths below the root of a tree, the root itself left out.
Below(tree) == DOMAIN tree \ {<<>>}

\* C35: when a migration has completed (the loop moved every entry and the
\* temporary directory was renamed to the device folder), every path that
\* was below the root when the migration started is found under the device
\* folder at the same relative path with the same content, nothing else is
\* below the root, and the temporary directory is gone.
C35_CompletedMigrationMovesEverything ==
    (probe.op = "layout" /\ probe.pc = "migrated") =>
        LET device_folder == <<probe.run.device>>
            start == probe.run.start
        IN /\ \A p \in Below(start) :
                 /\ device_folder \o p \in DOMAIN probe.tree
                 /\ probe.tree[device_folder \o p] = start[p]
           /\ Below(probe.tree) = {device_folder} \cup {device_folder \o p : p \in Below(start)}
           /\ probe.tree[device_folder] = Directory
           /\ probe.run.temp_dir \notin DOMAIN probe.tree

\* A migration has completed on a root that held files, a log folder with
\* its log file, and the folder of another device.
C35_Witness ==
    /\ probe.op = "layout"
    /\ probe.pc = "migrated"
    /\ <<"a.txt">> \in DOMAIN probe.run.start
    /\ <<LEGACY_LOGS, "backup.log">> \in DOMAIN probe.run.start
    /\ \E other \in DeviceNames \ {probe.run.device} : <<other, "a.txt">> \in DOMAIN probe.run.start

\* The names a temporary directory of a migration can have.
TempNames == {temp_name(now) : now \in 1..MaxNow}

\* The paths that are inside a temporary directory of a migration.
Stranded(tree) ==
    {p \in DOMAIN tree : \E k \in 1..(Len(p) - 1) : p[k] \in TempNames}

\* C36: when a migration for a device was interrupted, the end of a later
\* run with the same device name finds every path that was below the root
\* when the interrupted migration started under the device folder at the
\* same relative path, the legacy manifest among them with its content,
\* and nothing is left inside a temporary directory.
C36_InterruptedMigrationRecovered ==
    [][(/\ probe.op = "layout"
        /\ probe.pc \in {"migrated", "backup"}
        /\ probe'.pc = "idle"
        /\ probe.run.device \in DOMAIN probe.interrupted) =>
          LET device_folder == <<probe.run.device>>
              start == probe.interrupted[probe.run.device]
          IN /\ \A p \in Below(start) :
                   /\ device_folder \o p \in DOMAIN probe'.tree
                   /\ p = <<LEGACY_MANIFEST>> => probe'.tree[device_folder \o p] = start[p]
             /\ Stranded(probe'.tree) = {}]_vars

(***************************************************************************)
(* Backup, then restore from the same backup path: SpecRoundTrip           *)
(***************************************************************************)
\* Relative paths are written as Python writes them, str(relative): the
\* characters of the names joined by "/".  A folder is a function from the
\* relative paths of its regular files to their content.
SEP == <<"/">>
DOCS_B_TXT == DOCS \o SEP \o B_TXT
C_MD == <<"c", ".", "m", "d">>
BACKUP_LOGS_TXT == <<"_", "b", "a", "c", "k", "u", "p", "_", "l", "o", "g", "s", ".", "t", "x", "t">>
SMARTBACKUPRC == <<".", "s", "m", "a", "r", "t", "b", "a", "c", "k", "u", "p", "r", "c">>
LAPTOP == <<"l", "a", "p", "t", "o", "p">>
BACKUP_LOGS == <<"_", "b", "a", "c", "k", "u", "p", "_", "l", "o", "g", "s">>
DOT_SMARTBACKUP == <<".", "s", "m", "a", "r", "t", "b", "a", "c", "k", "u", "p">>
MANIFEST_FILENAME == <<".", "s", "m", "a", "r", "t", "b", "a", "c", "k", "u", "p", "_", "m", "a", "n", "i", "f", "e", "s", "t", ".", "j", "s", "o", "n">>
BACKUP_LOG == BACKUP_LOGS \o SEP \o <<"b", "a", "c", "k", "u", "p", ".", "l", "o", "g">>

PAT_STAR_TXT == <<"*", ".", "t", "x", "t">>
PAT_DOCS_STAR == <<"d", "o", "c", "s", "/", "*">>
PAT_Q_MD == <<"?", ".", "m", "d">>

\* str.startswith
startswith(s, prefix) ==
    Len(s) >= Len(prefix) /\ SubSeq(s, 1, Len(prefix)) = prefix

\* fnmatch.fnmatch on a POSIX system: the whole name must match, "*" stands
\* for any characters, "/" among them, and "?" for any one character.
RECURSIVE fnmatch(_, _)
fnmatch(name, pat) ==
    IF pat = <<>> THEN name = <<>>
    ELSE IF Head(pat) = "*"
         THEN \/ fnmatch(name, Tail(pat))
              \/ name # <<>> /\ fnmatch(Tail(name), pat)
    ELSE IF name = <<>> THEN FALSE
    ELSE IF Head(pat) = "?" THEN fnmatch(Tail(name), Tail(pat))
    ELSE Head(pat) = Head(name) /\ fnmatch(Tail(name), Tail(pat))

\* backup_target / relative, as a path relative to the backup root.
under(folder, relative) == IF folder = <<>> THEN relative ELSE folder \o SEP \o relative

SourceContent(relative) == [of |-> "source", path |-> relative]
ManifestContent == [of |-> "manifest", path |-> <<>>]
LogContent == [of |-> "log", path |-> <<>>]
NoFolder == [p \in {} |-> LogContent]

\* A successful run_backup into an absent backup root: every scanned file
\* is copied to backup_target / relative_path, the manifest is saved in the
\* backup target and, with log_to_file, the log file is written there.
backup_folder_after(source, device_name, log_to_file) ==
    LET copied == {under(device_name, f) : f \in source}
        manifest_path == under(device_name, MANIFEST_FILENAME)
        log_path == under(device_name, BACKUP_LOG)
        kept == copied \cup {manifest_path} \cup (IF log_to_file THEN {log_path} ELSE {})
    IN [p \in kept |->
           IF p \in copied
           THEN SourceContent(CHOOSE f \in source : under(device_name, f) = p)
           ELSE IF p = manifest_path THEN ManifestContent ELSE LogContent]

\* The internal files _collect_files skips.
is_internal(relative) ==
    \/ startswith(relative, BACKUP_LOGS)
    \/ startswith(relative, DOT_SMARTBACKUP)

\* RestoreEngine._collect_files on the folder self.backup_target, which is
\* backup_path / backup_folder: the relative paths of the files collected.
collect_files_matching(folder, patterns) ==
    {relative \in DOMAIN folder :
        /\ ~is_internal(relative)
        /\ patterns # {} => \E pattern \in patterns : fnmatch(relative, pattern)}

\* _restore_files into an empty target with copies that succeed: every
\* collected file is copied to target_path / relative.
restored_to_empty(folder, collected) == [relative \in collected |-> folder[relative]]

RoundTripSources == {A_TXT, DOCS_B_TXT, C_MD, BACKUP_LOGS_TXT, SMARTBACKUPRC}
RoundTripDevices == {<<>>, LAPTOP}
RoundTripPatterns == {{}, {PAT_STAR_TXT}, {PAT_DOCS_STAR, PAT_Q_MD}, {A_TXT}}

InitRoundTrip ==
    /\ EngineInit
    /\ src = <<>>
    /\ config = BackupConfig(TRUE, FALSE)
    /\ \E source \in SUBSET RoundTripSources, device_name \in RoundTripDevices,
          log_to_file \in BOOLEAN :
          probe = [op |-> "round trip", pc |-> "source", source |-> source,
                   device_name |-> device_name, log_to_file |-> log_to_file,
                   folder |-> NoFolder, patterns |-> {}, collected |-> {},
                   target |-> NoFolder]

\* BackupEngine.run_backup on the source, into an absent backup root.
RoundTripBackup ==
    /\ probe.pc = "source"
    /\ probe.source # {}
    /\ probe' = [probe EXCEPT
           !.pc = "backed up",
           !.folder = backup_folder_after(probe.source, probe.device_name, probe.log_to_file)]
    /\ UNCHANGED engineVars

\* Step 3 of RestoreEngine(backup_path, target).restore(patterns).
RoundTripCollect(patterns) ==
    /\ probe.pc = "backed up"
    /\ probe' = [probe EXCEPT
           !.pc = "collected",
           !.patterns = patterns,
           !.collected = collect_files_matching(probe.folder, patterns)]
    /\ UNCHANGED engineVars

\* Step 4 of restore, into an empty target.
RoundTripRestore ==
    /\ probe.pc = "collected"
    /\ probe' = [probe EXCEPT
           !.pc = "restored",
           !.target = restored_to_empty(probe.folder, probe.collected)]
    /\ UNCHANGED engineVars

NextRoundTrip ==
    \/ RoundTripBackup
    \/ \E patterns \in RoundTripPatterns : RoundTripCollect(patterns)
    \/ RoundTripRestore

SpecRoundTrip == InitRoundTrip /\ [][NextRoundTrip]_vars

RoundTripTypeOK ==
    probe.op = "round trip" => probe.pc \in {"source", "backed up", "collected", "restored"}

\* C37: after a successful run_backup, with or without a device name, and
\* a restore without patterns from the same backup path into an empty
\* target, the target holds exactly the scanned source files, each at its
\* relative path with its content.
C37_BackupRestoreRoundTrip ==
    (probe.op = "round trip" /\ probe.pc = "restored" /\ probe.patterns = {}) =>
        probe.target = [f \in probe.source |-> SourceContent(f)]

\* The files of a folder that are internal bookkeeping: the manifest file
\* itself and the files under the log folder.
Bookkeeping(folder) ==
    {relative \in DOMAIN folder :
        relative = MANIFEST_FILENAME \/ startswith(relative, BACKUP_LOGS \o SEP)}

\* C38: _collect_files collects exactly the files of the backup folder
\* that are not internal bookkeeping and, when patterns are given, whose
\* relative path matches at least one pattern.
C38_CollectsAllButBookkeeping ==
    (probe.op = "round trip" /\ probe.pc = "collected") =>
        probe.collected =
            {relative \in DOMAIN probe.folder \ Bookkeeping(probe.folder) :
                probe.patterns # {} => \E pattern \in probe.patterns : fnmatch(relative, pattern)}

(***************************************************************************)
(* ChangeDetector.detect_changes on the physical backup: SpecDetect        *)
(***************************************************************************)
\* What is at a path under the backup root: a regular file or a directory
\* with the size and mtime stat reports, or a file whose stat raises after
\* exists() has answered (the file went away in between).
BackupEntry(kind, size, mtime, stat) ==
    [kind |-> kind, size |-> size, mtime |-> mtime, stat |-> stat]

BackupEntries ==
    {BackupEntry(kind, size, mtime, "ok") :
        kind \in {"file", "dir"}, size \in Sizes, mtime \in Mtimes}
    \cup {BackupEntry("file", 1, 1, "raises")}

\* ChangeDetector.detect_changes with what exists() , is_file() and stat()
\* answer for the paths under the backup root.
detect_changes_under(files, entries, use_hash) ==
    LET order == Ascending(DOMAIN files)
        existing_backup_files == {q \in DOMAIN entries : entries[q].kind = "file"}
        backup_info(q) == FileInfo(q, entries[q].size, entries[q].mtime, "None")
    IN [new_files |->
            FilesAt(files, SelectSeq(order, LAMBDA q : q \notin DOMAIN entries)),
        modified_files |->
            FilesAt(files, SelectSeq(order, LAMBDA q :
                /\ q \in DOMAIN entries
                /\ \/ entries[q].stat = "raises"
                   \/ needs_update(files[q], backup_info(q), use_hash))),
        deleted_files |->
            SelectSeq(Ascending(existing_backup_files), LAMBDA q : q \notin DOMAIN files)]

DetectScans ==
    UNION {[D -> {FileInfo(0, size, mtime, h) :
                     size \in Sizes, mtime \in Mtimes, h \in {"None", "d1"}}] :
           D \in SUBSET Paths}

DetectBackups == UNION {[D -> BackupEntries] : D \in SUBSET Paths}

NoChanges == [new_files |-> <<>>, modified_files |-> <<>>, deleted_files |-> <<>>]

InitDetect ==
    /\ EngineInit
    /\ src = <<>>
    /\ config = BackupConfig(FALSE, FALSE)
    /\ \E scanned \in DetectScans, entries \in DetectBackups :
          probe = [op |-> "detect", called |-> FALSE, use_hash |-> FALSE,
                   files |-> [q \in DOMAIN scanned |->
                                 [scanned[q] EXCEPT !.relative_path = q]],
                   entries |-> entries,
                   changes |-> NoChanges]

\* ChangeDetector(use_hash).detect_changes(source_files, backup_path, logger)
CallDetect(use_hash) ==
    /\ probe.op = "detect"
    /\ ~probe.called
    /\ probe' = [probe EXCEPT
           !.called = TRUE,
           !.use_hash = use_hash,
           !.changes = detect_changes_under(probe.files, probe.entries, use_hash)]
    /\ UNCHANGED engineVars

NextDetect == \E use_hash \in BOOLEAN : CallDetect(use_hash)

SpecDetect == InitDetect /\ [][NextDetect]_vars

\* The elements of a list, and whether it names nothing twice.
Listed(list) == {list[i] : i \in 1..Len(list)}
NoRepeats(list) == \A i, j \in 1..Len(list) : list[i] = list[j] => i = j

====
